---------------------------- MODULE Spec2Model ----------------------------
(***************************************************************************)
(* A model of the flight-search aggregator: the TTL cache, the provider    *)
(* selection and fan-in of the aggregator, and the search orchestrator.    *)
(*                                                                         *)
(* Strings that the code inspects character by character (airport codes,   *)
(* provider and airline names) are sequences of one-character strings.     *)
(* Time is a discrete clock `now`.  Pointers are indices into `heap`.      *)
(***************************************************************************)
EXTENDS Integers, Sequences, FiniteSets, TLC

\* ------------------------------------------------------------------ bounds
MaxTime == 3          \* the clock runs 0..MaxTime
MaxOps == 5           \* direct cache operations in the cache specification
Ttl == 2              \* cache.ttl of the configuration

\* ------------------------------------------------------------- utilities
Range(s) == {s[i] : i \in 1..Len(s)}

\* a Go map as a function over its present keys
MapPut(m, k, v) == [x \in DOMAIN m \cup {k} |-> IF x = k THEN v ELSE m[x]]
MapDel(m, ks) == [x \in DOMAIN m \ ks |-> m[x]]
EmptyMap == [x \in {} |-> 0]

\* ------------------------------------------------------------------ cache
VARIABLES
    now,        \* time.Now()
    data,       \* Cache.data: key -> CacheEntry
    stats,      \* Cache.stats
    lastSet,    \* history: key -> [Data, At] of the most recent Set(key, _)
    lastGet,    \* history: the most recent Get: its key and result, whether the
                \* key had an entry, and whether the sweeper ran since its Set
    sweptSince  \* history (cache specification): the keys set, and not set
                \* again, before the sweeper last ran

cacheVars == <<now, data, stats, lastSet, lastGet, sweptSince>>

ZeroStats == [Hits |-> 0, Misses |-> 0, Evictions |-> 0, Expirations |-> 0,
              CurrentSize |-> 0, TotalRequests |-> 0]

NoGet == [Key |-> <<>>, Data |-> 0, Ok |-> FALSE, Found |-> FALSE, Swept |-> FALSE]

\* CacheEntry.IsExpired: time.Now().After(e.ExpiresAt)
IsExpiredNever(e, t) == FALSE
IsExpired(e, t) == t > e.ExpiresAt

\* Cache.Set, as the new (data, stats)
CacheSetNoTtl(d, st, key, value, t) ==
    LET d2 == MapPut(d, key, [Data |-> value, ExpiresAt |-> t])
    IN  [data |-> d2, stats |-> [st EXCEPT !.CurrentSize = Cardinality(DOMAIN d2)]]
CacheSet(d, st, key, value, t) ==
    LET d2 == MapPut(d, key, [Data |-> value, ExpiresAt |-> t + Ttl])
    IN  [data |-> d2, stats |-> [st EXCEPT !.CurrentSize = Cardinality(DOMAIN d2)]]

\* Cache.Get, as (value, ok) and the new stats; nil is 0
CacheGet(d, st, key, t) ==
    LET st1 == [st EXCEPT !.TotalRequests = @ + 1]
    IN  IF key \notin DOMAIN d
        THEN [Data |-> 0, Ok |-> FALSE, stats |-> [st1 EXCEPT !.Misses = @ + 1]]
        ELSE IF IsExpired(d[key], t)
        THEN [Data |-> 0, Ok |-> FALSE,
              stats |-> [st1 EXCEPT !.Misses = @ + 1, !.Expirations = @ + 1]]
        ELSE [Data |-> d[key].Data, Ok |-> TRUE,
              stats |-> [st1 EXCEPT !.Hits = @ + 1]]

\* Cache.removeExpiredEntries, as the new (data, stats)
RemoveExpiredEager(d, st, t) ==
    LET gone == {k \in DOMAIN d : t >= d[k].ExpiresAt}
        d2 == MapDel(d, gone)
    IN  [data |-> d2,
         stats |-> IF gone # {}
                   THEN [st EXCEPT !.Expirations = @ + Cardinality(gone),
                                   !.CurrentSize = Cardinality(DOMAIN d2)]
                   ELSE st]
RemoveExpired(d, st, t) ==
    LET gone == {k \in DOMAIN d : t > d[k].ExpiresAt}
        d2 == MapDel(d, gone)
    IN  [data |-> d2,
         stats |-> IF gone # {}
                   THEN [st EXCEPT !.Expirations = @ + Cardinality(gone),
                                   !.CurrentSize = Cardinality(DOMAIN d2)]
                   ELSE st]

\* the cache with its history, as one value threaded through a handler
Cur == [data |-> data, stats |-> stats, lastSet |-> lastSet,
        lastGet |-> lastGet, sweptSince |-> sweptSince]

\* the cache after one Get at time t
AfterGet(c, key, t) ==
    LET r == CacheGet(c.data, c.stats, key, t)
    IN  [c EXCEPT !.stats = r.stats,
                  !.lastGet = [Key |-> key, Data |-> r.Data, Ok |-> r.Ok,
                               Found |-> key \in DOMAIN c.data,
                               Swept |-> key \in c.sweptSince]]

\* the cache after one Set at time t
AfterSet(c, key, value, t) ==
    LET r == CacheSet(c.data, c.stats, key, value, t)
    IN  [c EXCEPT !.data = r.data, !.stats = r.stats,
                  !.lastSet = MapPut(@, key, [Data |-> value, At |-> t]),
                  !.sweptSince = @ \ {key}]

Commit(c) ==
    /\ data' = c.data
    /\ stats' = c.stats
    /\ lastSet' = c.lastSet
    /\ lastGet' = c.lastGet
    /\ sweptSince' = c.sweptSince

\* one run of the sweeper (cleanupExpired's ticker fired)
Sweep ==
    LET r == RemoveExpired(data, stats, now)
    IN  /\ data' = r.data
        /\ stats' = r.stats
        /\ UNCHANGED <<now, lastSet, lastGet>>

\* the clock advances
Tick ==
    /\ now < MaxTime
    /\ now' = now + 1
    /\ UNCHANGED <<data, stats, lastSet, lastGet, sweptSince>>

CacheInit ==
    /\ now = 0
    /\ data = EmptyMap
    /\ stats = ZeroStats
    /\ lastSet = EmptyMap
    /\ lastGet = NoGet
    /\ sweptSince = {}

\* ---------------------------------------------------------------- strings
UpperLetters == <<"A","B","C","D","E","F","G","H","I","J","K","L","M",
                  "N","O","P","Q","R","S","T","U","V","W","X","Y","Z">>
LowerLetters == <<"a","b","c","d","e","f","g","h","i","j","k","l","m",
                  "n","o","p","q","r","s","t","u","v","w","x","y","z">>

\* the letter test of validateAirportCode
IsLetter(c) == c \in Range(UpperLetters) \cup Range(LowerLetters)

LowerChar(c) ==
    IF c \in Range(UpperLetters)
    THEN LowerLetters[CHOOSE i \in 1..26 : UpperLetters[i] = c]
    ELSE c

\* strings.ToLower
ToLower(str) == [i \in 1..Len(str) |-> LowerChar(str[i])]

\* strings.EqualFold, on the letters and digits the model uses
EqualFold(a, b) == ToLower(a) = ToLower(b)

\* ------------------------------------------------------- request records
\* A Go pointer or optional field is <<>> (nil) or <<v>>.
Nil == <<>>
Ptr(v) == <<v>>
IsNil(p) == p = <<>>
Deref(p) == p[1]

CGK == <<"C","G","K">>
DPS == <<"D","P","S">>
Economy == <<"e","c","o","n","o","m","y">>
Premium == <<"p","r","e","m","i","u","m">>
Business == <<"b","u","s","i","n","e","s","s">>
First == <<"f","i","r","s","t">>

DateOut == "2025-12-15"
DateBack == "2025-12-22"

NoFilters == [MinPrice |-> Nil, MaxPrice |-> Nil, MaxStops |-> Nil,
              Airlines |-> <<>>, DepartureTime |-> Nil, ArrivalTime |-> Nil,
              MaxDuration |-> Nil]

BaseRequest == [Origin |-> CGK, Destination |-> DPS, DepartureDate |-> DateOut,
                ReturnDate |-> Nil, Passengers |-> 1, CabinClass |-> Economy,
                Filters |-> Nil, SortBy |-> "", SortOrder |-> "",
                ReturnFilters |-> Nil, ReturnSortBy |-> "", ReturnSortOrder |-> ""]

\* -------------------------------------------------------------- validator
\* An error is the chain of its messages, outermost first; nil is <<>>.
NoError == <<>>
ValidationError(field, message) == <<"validation", field, message>>
IsValidationError(err) == err # <<>> /\ err[1] = "validation"

\* validateDate's four layouts, on the date strings the model uses: the day
\* number time.Parse yields, or -1 when no layout parses the string
ParseDate(str) ==
    CASE str = "2025-12-15" -> 15
      [] str = "2025/12/15" -> 15
      [] str = "15-12-2025" -> 15
      [] str = "15/12/2025" -> 15
      [] str = "2025-12-22" -> 22
      [] str = "2025-12-10" -> 10
      [] OTHER -> -1

validateAirportCodeLengthOnly(code, field) ==
    IF code = <<>> THEN ValidationError(field, "airport code is required")
    ELSE IF Len(code) # 3
    THEN ValidationError(field, "airport code must be 3 characters (IATA code)")
    ELSE NoError

validateAirportCode(code, field) ==
    IF code = <<>> THEN ValidationError(field, "airport code is required")
    ELSE IF Len(code) # 3
    THEN ValidationError(field, "airport code must be 3 characters (IATA code)")
    ELSE IF \E i \in 1..Len(code) : ~IsLetter(code[i])
    THEN ValidationError(field, "airport code must contain only letters")
    ELSE NoError

validateDate(dateStr, field) ==
    IF dateStr = "" THEN ValidationError(field, "date is required")
    ELSE IF ParseDate(dateStr) < 0
    THEN ValidationError(field, "invalid date format (expected YYYY-MM-DD, YYYY/MM/DD, DD-MM-YYYY, or DD/MM/YYYY)")
    ELSE NoError

validateTimeRange(tr, field) ==
    IF tr.Start < 0 \/ tr.Start > 23
    THEN ValidationError(field \o ".Start", "start hour must be between 0 and 23")
    ELSE IF tr.End < 0 \/ tr.End > 23
    THEN ValidationError(field \o ".End", "end hour must be between 0 and 23")
    ELSE IF tr.Start > tr.End
    THEN ValidationError(field, "start hour must be less than or equal to end hour")
    ELSE NoError

ValidateFilters(f) ==
    IF ~IsNil(f.MinPrice) /\ Deref(f.MinPrice) < 0
    THEN ValidationError("MinPrice", "minimum price cannot be negative")
    ELSE IF ~IsNil(f.MaxPrice) /\ Deref(f.MaxPrice) < 0
    THEN ValidationError("MaxPrice", "maximum price cannot be negative")
    ELSE IF ~IsNil(f.MinPrice) /\ ~IsNil(f.MaxPrice)
            /\ Deref(f.MinPrice) > Deref(f.MaxPrice)
    THEN ValidationError("MaxPrice", "maximum price must be greater than minimum price")
    ELSE IF ~IsNil(f.MaxStops) /\ Deref(f.MaxStops) < 0
    THEN ValidationError("MaxStops", "maximum stops cannot be negative")
    ELSE IF ~IsNil(f.DepartureTime)
            /\ validateTimeRange(Deref(f.DepartureTime), "DepartureTime") # NoError
    THEN validateTimeRange(Deref(f.DepartureTime), "DepartureTime")
    ELSE IF ~IsNil(f.ArrivalTime)
            /\ validateTimeRange(Deref(f.ArrivalTime), "ArrivalTime") # NoError
    THEN validateTimeRange(Deref(f.ArrivalTime), "ArrivalTime")
    ELSE IF ~IsNil(f.MaxDuration) /\ Deref(f.MaxDuration) <= 0
    THEN ValidationError("MaxDuration", "maximum duration must be positive")
    ELSE NoError

HasReturnDate(req) == ~IsNil(req.ReturnDate) /\ Deref(req.ReturnDate) # ""

ValidateSearchRequest(req) ==
    IF validateAirportCode(req.Origin, "Origin") # NoError
    THEN validateAirportCode(req.Origin, "Origin")
    ELSE IF validateAirportCode(req.Destination, "Destination") # NoError
    THEN validateAirportCode(req.Destination, "Destination")
    ELSE IF EqualFold(req.Origin, req.Destination)
    THEN ValidationError("Destination", "origin and destination must be different")
    ELSE IF validateDate(req.DepartureDate, "DepartureDate") # NoError
    THEN validateDate(req.DepartureDate, "DepartureDate")
    ELSE IF HasReturnDate(req)
            /\ validateDate(Deref(req.ReturnDate), "ReturnDate") # NoError
    THEN validateDate(Deref(req.ReturnDate), "ReturnDate")
    ELSE IF HasReturnDate(req)
            /\ ParseDate(Deref(req.ReturnDate)) < ParseDate(req.DepartureDate)
    THEN ValidationError("ReturnDate", "return date must be on or after departure date")
    ELSE IF req.Passengers < 1
    THEN ValidationError("Passengers", "must have at least 1 passenger")
    ELSE IF req.Passengers > 9
    THEN ValidationError("Passengers", "maximum 9 passengers per search")
    ELSE IF ToLower(req.CabinClass) \notin {Economy, Premium, Business, First}
    THEN ValidationError("CabinClass", "cabin class must be economy, premium, business, or first")
    ELSE IF ~IsNil(req.Filters) /\ ValidateFilters(Deref(req.Filters)) # NoError
    THEN ValidateFilters(Deref(req.Filters))
    ELSE IF ~IsNil(req.ReturnFilters) /\ ValidateFilters(Deref(req.ReturnFilters)) # NoError
    THEN ValidateFilters(Deref(req.ReturnFilters))
    ELSE NoError

\* ----------------------------------------------------------- HTTP handler
\* the characters of the field names and messages of the validator, for the
\* substring tests of the handler
Chars(str) ==
    CASE str = "Origin" ->
           <<"O","r","i","g","i","n">>
      [] str = "Destination" ->
           <<"D","e","s","t","i","n","a","t","i","o","n">>
      [] str = "DepartureDate" ->
           <<"D","e","p","a","r","t","u","r","e","D","a","t","e">>
      [] str = "ReturnDate" ->
           <<"R","e","t","u","r","n","D","a","t","e">>
      [] str = "Passengers" ->
           <<"P","a","s","s","e","n","g","e","r","s">>
      [] str = "CabinClass" ->
           <<"C","a","b","i","n","C","l","a","s","s">>
      [] str = "MinPrice" ->
           <<"M","i","n","P","r","i","c","e">>
      [] str = "MaxPrice" ->
           <<"M","a","x","P","r","i","c","e">>
      [] str = "MaxStops" ->
           <<"M","a","x","S","t","o","p","s">>
      [] str = "DepartureTime" ->
           <<"D","e","p","a","r","t","u","r","e","T","i","m","e">>
      [] str = "ArrivalTime" ->
           <<"A","r","r","i","v","a","l","T","i","m","e">>
      [] str = "MaxDuration" ->
           <<"M","a","x","D","u","r","a","t","i","o","n">>
      [] str = "DepartureTime.Start" ->
           <<"D","e","p","a","r","t","u","r","e","T","i","m","e",".","S","t",
             "a","r","t">>
      [] str = "DepartureTime.End" ->
           <<"D","e","p","a","r","t","u","r","e","T","i","m","e",".","E","n",
             "d">>
      [] str = "ArrivalTime.Start" ->
           <<"A","r","r","i","v","a","l","T","i","m","e",".","S","t","a","r",
             "t">>
      [] str = "ArrivalTime.End" ->
           <<"A","r","r","i","v","a","l","T","i","m","e",".","E","n","d">>
      [] str = "airport code is required" ->
           <<"a","i","r","p","o","r","t"," ","c","o","d","e"," ","i","s"," ",
             "r","e","q","u","i","r","e","d">>
      [] str = "airport code must be 3 characters (IATA code)" ->
           <<"a","i","r","p","o","r","t"," ","c","o","d","e"," ","m","u","s",
             "t"," ","b","e"," ","3"," ","c","h","a","r","a","c","t","e","r",
             "s"," ","(","I","A","T","A"," ","c","o","d","e",")">>
      [] str = "airport code must contain only letters" ->
           <<"a","i","r","p","o","r","t"," ","c","o","d","e"," ","m","u","s",
             "t"," ","c","o","n","t","a","i","n"," ","o","n","l","y"," ","l",
             "e","t","t","e","r","s">>
      [] str = "origin and destination must be different" ->
           <<"o","r","i","g","i","n"," ","a","n","d"," ","d","e","s","t","i",
             "n","a","t","i","o","n"," ","m","u","s","t"," ","b","e"," ","d",
             "i","f","f","e","r","e","n","t">>
      [] str = "date is required" ->
           <<"d","a","t","e"," ","i","s"," ","r","e","q","u","i","r","e","d">>
      [] str = "invalid date format (expected YYYY-MM-DD, YYYY/MM/DD, DD-MM-YYYY, or DD/MM/YYYY)" ->
           <<"i","n","v","a","l","i","d"," ","d","a","t","e"," ","f","o","r",
             "m","a","t"," ","(","e","x","p","e","c","t","e","d"," ","Y","Y",
             "Y","Y","-","M","M","-","D","D",","," ","Y","Y","Y","Y","/","M",
             "M","/","D","D",","," ","D","D","-","M","M","-","Y","Y","Y","Y",
             ","," ","o","r"," ","D","D","/","M","M","/","Y","Y","Y","Y",")">>
      [] str = "return date must be on or after departure date" ->
           <<"r","e","t","u","r","n"," ","d","a","t","e"," ","m","u","s","t",
             " ","b","e"," ","o","n"," ","o","r"," ","a","f","t","e","r"," ",
             "d","e","p","a","r","t","u","r","e"," ","d","a","t","e">>
      [] str = "must have at least 1 passenger" ->
           <<"m","u","s","t"," ","h","a","v","e"," ","a","t"," ","l","e","a",
             "s","t"," ","1"," ","p","a","s","s","e","n","g","e","r">>
      [] str = "maximum 9 passengers per search" ->
           <<"m","a","x","i","m","u","m"," ","9"," ","p","a","s","s","e","n",
             "g","e","r","s"," ","p","e","r"," ","s","e","a","r","c","h">>
      [] str = "cabin class must be economy, premium, business, or first" ->
           <<"c","a","b","i","n"," ","c","l","a","s","s"," ","m","u","s","t",
             " ","b","e"," ","e","c","o","n","o","m","y",","," ","p","r","e",
             "m","i","u","m",","," ","b","u","s","i","n","e","s","s",","," ",
             "o","r"," ","f","i","r","s","t">>
      [] str = "minimum price cannot be negative" ->
           <<"m","i","n","i","m","u","m"," ","p","r","i","c","e"," ","c","a",
             "n","n","o","t"," ","b","e"," ","n","e","g","a","t","i","v","e">>
      [] str = "maximum price cannot be negative" ->
           <<"m","a","x","i","m","u","m"," ","p","r","i","c","e"," ","c","a",
             "n","n","o","t"," ","b","e"," ","n","e","g","a","t","i","v","e">>
      [] str = "maximum price must be greater than minimum price" ->
           <<"m","a","x","i","m","u","m"," ","p","r","i","c","e"," ","m","u",
             "s","t"," ","b","e"," ","g","r","e","a","t","e","r"," ","t","h",
             "a","n"," ","m","i","n","i","m","u","m"," ","p","r","i","c","e">>
      [] str = "maximum stops cannot be negative" ->
           <<"m","a","x","i","m","u","m"," ","s","t","o","p","s"," ","c","a",
             "n","n","o","t"," ","b","e"," ","n","e","g","a","t","i","v","e">>
      [] str = "start hour must be between 0 and 23" ->
           <<"s","t","a","r","t"," ","h","o","u","r"," ","m","u","s","t"," ",
             "b","e"," ","b","e","t","w","e","e","n"," ","0"," ","a","n","d",
             " ","2","3">>
      [] str = "end hour must be between 0 and 23" ->
           <<"e","n","d"," ","h","o","u","r"," ","m","u","s","t"," ","b","e",
             " ","b","e","t","w","e","e","n"," ","0"," ","a","n","d"," ","2",
             "3">>
      [] str = "start hour must be less than or equal to end hour" ->
           <<"s","t","a","r","t"," ","h","o","u","r"," ","m","u","s","t"," ",
             "b","e"," ","l","e","s","s"," ","t","h","a","n"," ","o","r"," ",
             "e","q","u","a","l"," ","t","o"," ","e","n","d"," ","h","o","u",
             "r">>
      [] str = "maximum duration must be positive" ->
           <<"m","a","x","i","m","u","m"," ","d","u","r","a","t","i","o","n",
             " ","m","u","s","t"," ","b","e"," ","p","o","s","i","t","i","v",
             "e">>

\* strings.Contains
Contains(text, pattern) ==
    \E i \in 0..(Len(text) - Len(pattern)) :
        SubSeq(text, i + 1, i + Len(pattern)) = pattern

\* ValidationError.Error(): "<field>: <message>"
ValidationErrorText(err) == Chars(err[2]) \o <<":", " ">> \o Chars(err[3])

StatusBadRequest == 400
StatusInternalServerError == 500
StatusGatewayTimeout == 504

\* the error branch of Handler.Search: the status and the error type are
\* chosen by substrings of the error's text, the timeout test last
HandlerErrorResponse(errMsg) ==
    LET validation ==
            \/ Contains(errMsg, <<"i","n","v","a","l","i","d">>)
            \/ Contains(errMsg, <<"r","e","q","u","i","r","e","d">>)
            \/ Contains(errMsg, <<"m","u","s","t"," ","b","e">>)
        timeout ==
            \/ Contains(errMsg, <<"t","i","m","e","o","u","t">>)
            \/ Contains(errMsg, <<"c","o","n","t","e","x","t"," ","d","e","a","d","l","i","n","e",
                                  " ","e","x","c","e","e","d","e","d">>)
    IN  IF timeout
        THEN [Status |-> StatusGatewayTimeout, Error |-> "Request timeout"]
        ELSE IF validation
        THEN [Status |-> StatusBadRequest, Error |-> "Validation error"]
        ELSE [Status |-> StatusInternalServerError, Error |-> "Internal server error"]

\* -------------------------------------------------------------- cache key
\* json.Marshal of the request as a token sequence: every field in struct
\* order, an omitempty field left out when nil or empty.
RECURSIVE JsonStrings(_)
JsonStrings(names) ==
    IF names = <<>> THEN <<>>
    ELSE <<"\"">> \o Head(names) \o <<"\"">> \o JsonStrings(Tail(names))

JsonOpt(name, p) == IF IsNil(p) THEN <<>> ELSE <<name, ToString(Deref(p))>>
JsonRange(name, p) ==
    IF IsNil(p) THEN <<>>
    ELSE <<name, "{", ToString(Deref(p).Start), ToString(Deref(p).End), "}">>
JsonStr(name, str) == IF str = "" THEN <<>> ELSE <<name, str>>

JsonFilters(name, p) ==
    IF IsNil(p) THEN <<>>
    ELSE LET f == Deref(p)
         IN  <<name, "{">>
             \o JsonOpt("minPrice", f.MinPrice)
             \o JsonOpt("maxPrice", f.MaxPrice)
             \o JsonOpt("maxStops", f.MaxStops)
             \o (IF f.Airlines = <<>> THEN <<>>
                 ELSE <<"airlines", "[">> \o JsonStrings(f.Airlines) \o <<"]">>)
             \o JsonRange("departureTime", f.DepartureTime)
             \o JsonRange("arrivalTime", f.ArrivalTime)
             \o JsonOpt("maxDuration", f.MaxDuration)
             \o <<"}">>

JsonRequest(req) ==
    <<"origin">> \o req.Origin \o <<"destination">> \o req.Destination
    \o <<"departureDate", req.DepartureDate>>
    \o (IF IsNil(req.ReturnDate) THEN <<>> ELSE <<"returnDate", Deref(req.ReturnDate)>>)
    \o <<"passengers", ToString(req.Passengers)>>
    \o <<"cabinClass">> \o req.CabinClass
    \o JsonFilters("filters", req.Filters)
    \o JsonStr("sortBy", req.SortBy)
    \o JsonStr("sortOrder", req.SortOrder)
    \o JsonFilters("returnFilters", req.ReturnFilters)
    \o JsonStr("returnSortBy", req.ReturnSortBy)
    \o JsonStr("returnSortOrder", req.ReturnSortOrder)

\* GenerateKey("search", req): the prefix and the digest of the JSON.  The
\* digest is taken as one-to-one on the requests of the model (SHA-256 cut
\* to 8 bytes; collisions are outside the model).
GenerateKey(req) == <<"search:">> \o JsonRequest(req)

\* -------------------------------------------------------------- providers
MaxAttempts == 2      \* retry.max_attempts of the configuration

Garuda == <<"G","a","r","u","d","a"," ","I","n","d","o","n","e","s","i","a">>
Lion == <<"L","i","o","n"," ","A","i","r">>

\* Aggregator.providers: the enabled providers, in configuration order, under
\* the names the configuration gives them
Providers == <<Garuda, Lion>>

\* the sentinel errors of the providers package
ErrProviderTimeout == "provider request timeout"
ErrProviderUnavailable == "provider unavailable"
ErrInvalidResponse == "invalid response from provider"
ErrNoFlightsFound == "no flights found"

\* errors.Is on an error chain
ErrorIs(err, sentinel) == sentinel \in Range(err)

Flight(id, prov, org, dst, date, price, dur, stops, depHour, arrHour, dep, arr) ==
    [ID |-> id, Provider |-> prov, Origin |-> org, Destination |-> dst,
     Date |-> date, Price |-> price, Duration |-> dur, Stops |-> stops,
     DepHour |-> depHour, ArrHour |-> arrHour, Dep |-> dep, Arr |-> arr]

\* the payload each backend holds (the mock data files), already converted
MockData(prov) ==
    IF prov = Garuda
    THEN << Flight("GA400_Garuda Indonesia", Garuda, CGK, DPS, DateOut, 1200, 110, 0, 6, 9, 360, 530),
            Flight("GA410_Garuda Indonesia", Garuda, CGK, DPS, DateOut, 900, 200, 1, 14, 18, 840, 1100),
            Flight("GA401_Garuda Indonesia", Garuda, DPS, CGK, DateBack, 1000, 115, 0, 10, 11, 10600, 10715) >>
    ELSE << Flight("JT740_Lion Air", Lion, CGK, DPS, DateOut, 700, 120, 0, 3, 6, 180, 360),
            Flight("JT741_Lion Air", Lion, DPS, CGK, DateBack, 800, 125, 0, 15, 16, 10980, 11105) >>

\* ctx.Err() once the aggregator's deadline has passed
ContextDeadlineExceeded == "context deadline exceeded"

\* Provider.Search for one attempt; `fault` is what happens this time: the
\* deadline passes during the simulated delay ("timeout"), the simulated
\* failure strikes ("unavailable"), the payload cannot be read ("invalid"),
\* its status is not success ("badstatus"), or none of these
ProviderSearch(prov, req, fault) ==
    IF fault = "timeout"
    THEN [Flights |-> <<>>, Error |-> <<"provider: ", ErrProviderTimeout>>]
    ELSE IF fault = "unavailable"
    THEN [Flights |-> <<>>, Error |-> <<"provider: ", ErrProviderUnavailable,
                                        " (simulated failure for testing)">>]
    ELSE IF fault = "invalid"
    THEN [Flights |-> <<>>, Error |-> <<"provider: ", ErrInvalidResponse>>]
    ELSE IF fault = "badstatus"
    THEN [Flights |-> <<>>, Error |-> <<"provider: unsuccessful response status: error">>]
    ELSE LET Match(f) == /\ f.Origin = req.Origin
                         /\ f.Destination = req.Destination
                         /\ f.Date = req.DepartureDate
             flights == SelectSeq(MockData(prov), Match)
         IN  IF flights = <<>>
             THEN [Flights |-> <<>>, Error |-> <<ErrNoFlightsFound>>]
             ELSE [Flights |-> flights, Error |-> NoError]

\* isRetryableError
isRetryableErrorAlways(err) ==
    IF err = NoError THEN FALSE
    ELSE TRUE

isRetryableError(err) ==
    IF err = NoError THEN FALSE
    ELSE IF ErrorIs(err, ErrNoFlightsFound) THEN FALSE
    ELSE TRUE

\* a.retryParams, as far as the number of attempts goes (the delays only
\* set how long the waits last)
RetryParams == [MaxAttempts |-> MaxAttempts]

\* RetryWithCheck around provider.Search, from attempt `attempt` on.  plan[k]
\* is what happens at attempt k: "waitdone" when the deadline passes during
\* the wait before it, "ctxdone" when the context is found done at the check
\* before it, or what Search does.  Once the deadline has passed the context
\* stays done: the wait that follows a "timeout" ends at once, and only a
\* wait of no length can let the loop reach its next check.  Calls counts
\* the invocations of Search.
RECURSIVE RetryFrom(_, _, _, _, _, _)
RetryFrom(prov, req, plan, params, attempt, lastErr) ==
    IF attempt > params.MaxAttempts
    THEN [Flights |-> <<>>, Calls |-> 0,
          Error |-> <<"provider: failed after attempts: ">> \o lastErr]
    ELSE IF plan[attempt] = "ctxdone" \/ (attempt = 1 /\ plan[attempt] = "waitdone")
    THEN [Flights |-> <<>>, Calls |-> 0,
          Error |-> <<"provider: context cancelled: ", ContextDeadlineExceeded>>]
    ELSE IF plan[attempt] = "waitdone"
    THEN [Flights |-> <<>>, Calls |-> 0,
          Error |-> <<"provider: context cancelled during retry wait: ",
                      ContextDeadlineExceeded>>]
    ELSE LET r == ProviderSearch(prov, req, plan[attempt])
         IN  IF r.Error = NoError \/ ~isRetryableError(r.Error)
             THEN [Flights |-> r.Flights, Calls |-> 1, Error |-> r.Error]
             ELSE IF attempt = params.MaxAttempts
             THEN [Flights |-> <<>>, Calls |-> 1,
                   Error |-> <<"provider: failed after attempts: ">> \o r.Error]
             ELSE IF plan[attempt] = "timeout"
             THEN [Flights |-> <<>>, Calls |-> 1,
                   Error |-> IF plan[attempt + 1] = "ctxdone"
                             THEN <<"provider: context cancelled: ",
                                    ContextDeadlineExceeded>>
                             ELSE <<"provider: context cancelled during retry wait: ",
                                    ContextDeadlineExceeded>>]
             ELSE LET rest == RetryFrom(prov, req, plan, params, attempt + 1, r.Error)
                  IN  [rest EXCEPT !.Calls = @ + 1]

\* Aggregator.queryProvider: the ProviderResult it sends
queryProvider(prov, req, plan) ==
    LET r == RetryFrom(prov, req, plan, RetryParams, 1, NoError)
    IN  [Provider |-> prov, Flights |-> r.Flights, Error |-> r.Error]

\* ------------------------------------------------------------- aggregator
HasAirlineFilter(req) == ~IsNil(req.Filters) /\ Deref(req.Filters).Airlines # <<>>

\* the providers SearchAll queries, in configuration order
SelectCaseSensitive(req) ==
    IF HasAirlineFilter(req)
    THEN LET airlineFilter == Range(Deref(req.Filters).Airlines)
             Matches(prov) == prov \in airlineFilter
             filteredProviders == SelectSeq(Providers, Matches)
         IN  IF Len(filteredProviders) > 0 THEN filteredProviders ELSE Providers
    ELSE Providers
providersToQuery(req) ==
    IF HasAirlineFilter(req)
    THEN LET airlineFilter == {ToLower(a) : a \in Range(Deref(req.Filters).Airlines)}
             Matches(prov) == ToLower(prov) \in airlineFilter
             filteredProviders == SelectSeq(Providers, Matches)
         IN  IF Len(filteredProviders) > 0 THEN filteredProviders ELSE Providers
    ELSE Providers

EmptyAggregated == [Flights |-> <<>>, ProviderResults |-> EmptyMap,
                    ProviderErrors |-> EmptyMap]

\* Aggregator.collectResults over the results in the order they were sent
RECURSIVE collectFrom(_, _)
collectFrom(aggregated, results) ==
    IF results = <<>> THEN aggregated
    ELSE LET result == Head(results)
         IN  collectFrom(
               IF result.Error # NoError
               THEN [aggregated EXCEPT
                       !.ProviderErrors = MapPut(@, result.Provider, result.Error)]
               ELSE [aggregated EXCEPT
                       !.Flights = @ \o result.Flights,
                       !.ProviderResults = MapPut(@, result.Provider, Len(result.Flights))],
               Tail(results))
collectFirstResultOnly(results) ==
    collectFrom(EmptyAggregated, SubSeq(results, 1, IF Len(results) > 0 THEN 1 ELSE 0))
collectResults(results) == collectFrom(EmptyAggregated, results)

ErrNoFlightsAnyProvider == <<"no flights found from any provider">>

\* the value and error SearchAll returns for the collected results
SearchAllNeverFails(results) ==
    [Aggregated |-> collectResults(results), Error |-> NoError]
SearchAllResult(results) ==
    LET aggregated == collectResults(results)
    IN  [Aggregated |-> aggregated,
         Error |-> IF Len(aggregated.Flights) = 0 THEN ErrNoFlightsAnyProvider
                   ELSE NoError]

\* the permutations of 1..n: the orders in which n tasks can complete
Perms(n) == {f \in [1..n -> 1..n] : \A i, j \in 1..n : i # j => f[i] # f[j]}

\* what the backends do over the attempts of one task
Plans ==
    { [k \in 1..MaxAttempts |-> "ok"],
      [k \in 1..MaxAttempts |-> IF k = 1 THEN "unavailable" ELSE "ok"],
      [k \in 1..MaxAttempts |-> "unavailable"] }

\* ---------------------------------------------------------- filter engine
filterByPrice(flights, minPrice, maxPrice) ==
    LET Keep(f) == /\ ~(~IsNil(minPrice) /\ f.Price < Deref(minPrice))
                   /\ ~(~IsNil(maxPrice) /\ f.Price > Deref(maxPrice))
    IN  SelectSeq(flights, Keep)

filterByStopsStrict(flights, maxStops) ==
    LET Keep(f) == f.Stops < maxStops IN SelectSeq(flights, Keep)
filterByStops(flights, maxStops) ==
    LET Keep(f) == f.Stops <= maxStops IN SelectSeq(flights, Keep)

filterByDepartureTime(flights, timeRange) ==
    LET Keep(f) == f.DepHour >= timeRange.Start /\ f.DepHour <= timeRange.End
    IN  SelectSeq(flights, Keep)

filterByArrivalTime(flights, timeRange) ==
    LET Keep(f) == f.ArrHour >= timeRange.Start /\ f.ArrHour <= timeRange.End
    IN  SelectSeq(flights, Keep)

filterByDuration(flights, maxDuration) ==
    LET Keep(f) == f.Duration <= maxDuration IN SelectSeq(flights, Keep)

\* FilterEngine.Apply
FilterApply(flights, filters) ==
    LET r1 == IF ~IsNil(filters.MinPrice) \/ ~IsNil(filters.MaxPrice)
              THEN filterByPrice(flights, filters.MinPrice, filters.MaxPrice)
              ELSE flights
        r2 == IF ~IsNil(filters.MaxStops)
              THEN filterByStops(r1, Deref(filters.MaxStops)) ELSE r1
        r3 == IF ~IsNil(filters.DepartureTime)
              THEN filterByDepartureTime(r2, Deref(filters.DepartureTime)) ELSE r2
        r4 == IF ~IsNil(filters.ArrivalTime)
              THEN filterByArrivalTime(r3, Deref(filters.ArrivalTime)) ELSE r3
    IN  IF ~IsNil(filters.MaxDuration)
        THEN filterByDuration(r4, Deref(filters.MaxDuration)) ELSE r4

\* ------------------------------------------------------------------ sorts
SetMin(S) == CHOOSE x \in S : \A y \in S : x <= y
SetMax(S) == CHOOSE x \in S : \A y \in S : x >= y

\* sort.Slice on at most 12 elements is an insertion sort: element i moves
\* left while less(it, its left neighbour).  Items are <<key, value>> pairs;
\* less is key < key when ascending and key > key when not.
Less(a, b, ascending) == IF ascending THEN a[1] < b[1] ELSE a[1] > b[1]

RECURSIVE InsertLeft(_, _, _)
\* x placed at the right end of the sorted prefix, then moved left
InsertLeft(prefix, x, ascending) ==
    IF prefix = <<>> THEN <<x>>
    ELSE IF Less(x, prefix[Len(prefix)], ascending)
    THEN InsertLeft(SubSeq(prefix, 1, Len(prefix) - 1), x, ascending)
         \o <<prefix[Len(prefix)]>>
    ELSE prefix \o <<x>>

RECURSIVE InsertionSortFrom(_, _, _)
InsertionSortFrom(sorted, rest, ascending) ==
    IF rest = <<>> THEN sorted
    ELSE InsertionSortFrom(InsertLeft(sorted, Head(rest), ascending),
                           Tail(rest), ascending)

SortSlice(items, ascending) == InsertionSortFrom(<<>>, items, ascending)

\* the direction Sorter.Sort sorts in: the requested one for the five keys,
\* ascending in the default case of the switch
SortDirectionAsRequested(known, ascending) == ascending
SortDirection(known, ascending) == IF known THEN ascending ELSE TRUE

\* Sorter.Sort
SorterSort(flights, sortBy, sortOrder) ==
    LET ascending == sortOrder # "desc"
        Key(f) == CASE sortBy = "price" -> f.Price
                    [] sortBy = "duration" -> f.Duration
                    [] sortBy = "departure" -> f.Dep
                    [] sortBy = "arrival" -> f.Arr
                    [] sortBy = "stops" -> f.Stops
                    [] OTHER -> f.Price
        known == sortBy \in {"price", "duration", "departure", "arrival", "stops"}
        items == [i \in 1..Len(flights) |-> <<Key(flights[i]), flights[i]>>]
        sorted == SortSlice(items, SortDirection(known, ascending))
    IN  [i \in 1..Len(sorted) |-> sorted[i][2]]

\* sort.Slice on more than 12 elements (pattern-defeating quicksort) orders
\* by less and promises nothing about elements neither of which is less than
\* the other: every arrangement of each run of equal keys is an outcome.
RemoveOne(seq, x) ==
    LET i == CHOOSE i \in 1..Len(seq) : seq[i] = x
    IN  SubSeq(seq, 1, i - 1) \o SubSeq(seq, i + 1, Len(seq))

RECURSIVE Arrangements(_)
Arrangements(block) ==
    IF block = <<>> THEN {<<>>}
    ELSE UNION {{<<x>> \o t : t \in Arrangements(RemoveOne(block, x))} : x \in Range(block)}

RECURSIVE OrderedByKey(_, _, _)
OrderedByKey(items, keys, ascending) ==
    IF keys = {} THEN {<<>>}
    ELSE LET k == IF ascending THEN SetMin(keys) ELSE SetMax(keys)
             IsK(item) == item[1] = k
         IN  {h \o t : h \in Arrangements(SelectSeq(items, IsK)),
                       t \in OrderedByKey(items, keys \ {k}, ascending)}

SortSliceOutcomes(items, ascending) ==
    IF Len(items) <= 12 THEN {SortSlice(items, ascending)}
    ELSE OrderedByKey(items, {items[i][1] : i \in 1..Len(items)}, ascending)

\* Sorter.Sort as a call: the slice the caller passed, as it is after the
\* call, and the slice returned; one record per outcome of sort.Slice
SorterSortAscOnlyOnAsc(flights, sortBy, sortOrder) ==
    LET ascending == sortOrder = "asc"
        Key(f) == CASE sortBy = "price" -> f.Price
                    [] sortBy = "duration" -> f.Duration
                    [] sortBy = "departure" -> f.Dep
                    [] sortBy = "arrival" -> f.Arr
                    [] sortBy = "stops" -> f.Stops
                    [] OTHER -> f.Price
        known == sortBy \in {"price", "duration", "departure", "arrival", "stops"}
        result == [i \in 1..Len(flights) |-> <<Key(flights[i]), flights[i]>>]
    IN  {[Flights |-> flights, Result |-> [i \in 1..Len(sorted) |-> sorted[i][2]]] :
           sorted \in SortSliceOutcomes(result, SortDirection(known, ascending))}
SorterSortCall(flights, sortBy, sortOrder) ==
    LET ascending == sortOrder # "desc"
        Key(f) == CASE sortBy = "price" -> f.Price
                    [] sortBy = "duration" -> f.Duration
                    [] sortBy = "departure" -> f.Dep
                    [] sortBy = "arrival" -> f.Arr
                    [] sortBy = "stops" -> f.Stops
                    [] OTHER -> f.Price
        known == sortBy \in {"price", "duration", "departure", "arrival", "stops"}
        result == [i \in 1..Len(flights) |-> <<Key(flights[i]), flights[i]>>]
    IN  {[Flights |-> flights, Result |-> [i \in 1..Len(sorted) |-> sorted[i][2]]] :
           sorted \in SortSliceOutcomes(result, SortDirection(known, ascending))}

\* ----------------------------------------------------------------- scorer
\* scoring.weights of the configuration, in tenths
Weights == [Price |-> 4, Duration |-> 3, Stops |-> 2, DepartureTime |-> 1]

\* scoreStops and scoreDepartureTime, in tenths
scoreStopsLinear(stops) == 10 - 3 * stops
scoreStops(stops) ==
    CASE stops = 0 -> 10 [] stops = 1 -> 7 [] stops = 2 -> 4 [] OTHER -> 2

scoreDepartureTime(hour) ==
    CASE hour >= 8 /\ hour <= 20 -> 10
      [] hour >= 6 /\ hour < 8 -> 8
      [] hour > 20 /\ hour <= 22 -> 8
      [] hour >= 5 /\ hour < 6 -> 6
      [] hour > 22 /\ hour <= 23 -> 6
      [] OTHER -> 3

\* scorePriceNormalized and scoreDurationNormalized as a fraction Num / Den
\* with Den the same for every flight of the list; for a value between min
\* and max the fraction is within 0 and 1 and the clamp changes nothing
NormDen(min, max) == IF max = min THEN 1 ELSE max - min
NormNumNotInverted(x, min, max) == IF max = min THEN 1 ELSE x - min
NormNum(x, min, max) == IF max = min THEN 1 ELSE max - x

\* the ScoreBreakdown of one flight of the list
ScoreBreakdown(f, flights) ==
    LET prices == {g.Price : g \in Range(flights)}
        durs == {g.Duration : g \in Range(flights)}
    IN  [PriceNum |-> NormNum(f.Price, SetMin(prices), SetMax(prices)),
         PriceDen |-> NormDen(SetMin(prices), SetMax(prices)),
         DurationNum |-> NormNum(f.Duration, SetMin(durs), SetMax(durs)),
         DurationDen |-> NormDen(SetMin(durs), SetMax(durs)),
         StopsScore |-> scoreStops(f.Stops),
         DepartureTimeScore |-> scoreDepartureTime(f.DepHour)]

\* Scorer.ScoreFlights: the flights with their score, best first.  Score is
\* the total score times PriceDen * DurationDen, an integer.
ScoreFlights(flights) ==
    IF flights = <<>> THEN <<>>
    ELSE LET Score(f) ==
                 LET b == ScoreBreakdown(f, flights)
                 IN  b.PriceNum * Weights.Price * 10 * b.DurationDen
                     + b.DurationNum * Weights.Duration * 10 * b.PriceDen
                     + b.StopsScore * Weights.Stops * b.PriceDen * b.DurationDen
                     + b.DepartureTimeScore * Weights.DepartureTime
                         * b.PriceDen * b.DurationDen
             items == [i \in 1..Len(flights) |-> <<Score(flights[i]), flights[i]>>]
             sorted == SortSlice(items, FALSE)
         IN  [i \in 1..Len(sorted) |->
                [Flight |-> sorted[i][2], Score |-> sorted[i][1],
                 Breakdown |-> ScoreBreakdown(sorted[i][2], flights)]]

\* ----------------------------------------------------- search orchestrator
MaxCalls == 2         \* Search calls in one behaviour

VARIABLES
    heap,       \* the SearchResponse objects allocated so far; a pointer is an index
    metaHeap,   \* the return-leg SearchMetadata objects (ReturnMetadata points here)
    calls,      \* the Search calls made so far, running or returned
    nOps,       \* direct cache operations made (cache specification only)
    arg,        \* the arguments of a call of one operation (the specifications
                \* of single operations only; <<>> before and elsewhere)
    ret,        \* what that call returned; <<>> until it has
    run         \* the goroutines and the objects they share while a call is in
                \* progress (the specifications of concurrent steps only;
                \* <<>> elsewhere)

vars == <<now, data, stats, lastSet, lastGet, sweptSince, heap, metaHeap, calls, nOps, arg,
          ret, run>>

\* the requests clients send
AirlinesFilter(names) == Ptr([NoFilters EXCEPT !.Airlines = names])
Requests ==
    { BaseRequest,
      [BaseRequest EXCEPT !.Destination = CGK],
      [BaseRequest EXCEPT !.Filters = Ptr([NoFilters EXCEPT
                                             !.Airlines = <<ToLower(Garuda)>>,
                                             !.MaxStops = Ptr(1)]),
                          !.SortBy = "price", !.SortOrder = "asc"],
      [BaseRequest EXCEPT !.Filters = AirlinesFilter(<<<<"N","o","n","e">>>>)],
      [BaseRequest EXCEPT !.ReturnDate = Ptr(DateBack)],
      [BaseRequest EXCEPT !.Origin = DPS, !.Destination = CGK,
                          !.DepartureDate = DateBack] }

\* step 1 of Search: the validator's verdict decides whether Search goes on
SearchSkipValidation(req) == NoError
SearchValidate(req) == ValidateSearchRequest(req)

\* SearchAll for the request: every selected provider's task runs its plan
\* and the results arrive in the order `order`
SearchAll(req, plans, order) ==
    LET sel == providersToQuery(req)
        results == [j \in 1..Len(sel) |->
                      queryProvider(sel[order[j]], req, plans[order[j]])]
    IN  [Req |-> req, Selected |-> sel, Results |-> results,
         Out |-> SearchAllResult(results)]

\* steps 4 to 6 of one leg and its metadata (search_time_ms, a wall-clock
\* measurement, is left out of the metadata)
BestOf(flights) ==
    IF Len(flights) > 0 /\ Len(ScoreFlights(flights)) > 0
    THEN Ptr(ScoreFlights(flights)[1].Flight) ELSE Nil

\* step 6 runs only for a request that names a sort key
SortRequestedAlways(sortBy) == TRUE
SortRequested(sortBy) == sortBy # ""

LegFlights(aggregated, filters, sortBy, sortOrder) ==
    LET filtered == IF ~IsNil(filters) THEN FilterApply(aggregated.Flights, Deref(filters))
                    ELSE aggregated.Flights
    IN  [Best |-> BestOf(filtered),
         Flights |-> IF SortRequested(sortBy) THEN SorterSort(filtered, sortBy, sortOrder)
                     ELSE filtered]

\* ScoreFlights, BestOf and LegFlights for lists of any length: one value per
\* outcome of sort.Slice.  Sorting the scored flights from their stable order
\* changes nothing for at most 12 of them and yields every arrangement of
\* equal scores for more.
ScoreFlightsOutcomes(flights) ==
    LET scored == ScoreFlights(flights)
        items == [i \in 1..Len(scored) |-> <<scored[i].Score, scored[i]>>]
    IN  {[i \in 1..Len(sorted) |-> sorted[i][2]] : sorted \in SortSliceOutcomes(items, FALSE)}

BestOfOutcomes(flights) ==
    IF Len(flights) > 0
    THEN {IF Len(scoredFlights) > 0 THEN Ptr(scoredFlights[1].Flight) ELSE Nil :
            scoredFlights \in ScoreFlightsOutcomes(flights)}
    ELSE {Nil}

LegOutcomes(aggregated, filters, sortBy, sortOrder) ==
    LET filtered == IF ~IsNil(filters) THEN FilterApply(aggregated.Flights, Deref(filters))
                    ELSE aggregated.Flights
    IN  {[Filtered |-> filtered, Best |-> best, Flights |-> sorted,
          SorterCalled |-> SortRequested(sortBy)] :
           best \in BestOfOutcomes(filtered),
           sorted \in IF SortRequested(sortBy)
                      THEN {o.Result : o \in SorterSortCall(filtered, sortBy, sortOrder)}
                      ELSE {filtered}}

LegMetadataNoFailures(aggregated, flights) ==
    [TotalResults |-> Len(flights),
     ProvidersQueried |-> Cardinality(DOMAIN aggregated.ProviderResults),
     ProvidersSucceeded |-> Cardinality({n \in DOMAIN aggregated.ProviderResults :
                                           aggregated.ProviderResults[n] > 0}),
     ProvidersFailed |-> 0,
     CacheHit |-> FALSE,
     ProviderResults |-> aggregated.ProviderResults,
     ProviderErrors |-> aggregated.ProviderErrors]
LegMetadata(aggregated, flights) ==
    [TotalResults |-> Len(flights),
     ProvidersQueried |-> Cardinality(DOMAIN aggregated.ProviderResults),
     ProvidersSucceeded |-> Cardinality({n \in DOMAIN aggregated.ProviderResults :
                                           aggregated.ProviderResults[n] > 0}),
     ProvidersFailed |-> Cardinality(DOMAIN aggregated.ProviderErrors),
     CacheHit |-> FALSE,
     ProviderResults |-> aggregated.ProviderResults,
     ProviderErrors |-> aggregated.ProviderErrors]

\* the request of the return leg
ReturnRequestNoSwap(req) ==
    [Origin |-> req.Origin, Destination |-> req.Destination,
     DepartureDate |-> Deref(req.ReturnDate), ReturnDate |-> Nil,
     Passengers |-> req.Passengers, CabinClass |-> req.CabinClass,
     Filters |-> req.ReturnFilters, SortBy |-> req.ReturnSortBy,
     SortOrder |-> req.ReturnSortOrder,
     ReturnFilters |-> Nil, ReturnSortBy |-> "", ReturnSortOrder |-> ""]

ReturnRequest(req) ==
    [Origin |-> req.Destination, Destination |-> req.Origin,
     DepartureDate |-> Deref(req.ReturnDate), ReturnDate |-> Nil,
     Passengers |-> req.Passengers, CabinClass |-> req.CabinClass,
     Filters |-> req.ReturnFilters, SortBy |-> req.ReturnSortBy,
     SortOrder |-> req.ReturnSortOrder,
     ReturnFilters |-> Nil, ReturnSortBy |-> "", ReturnSortOrder |-> ""]

BuildResponseBareReturn(req, meta, leg, returnFlights, bestReturn, returnMetaPtr) ==
    [SearchCriteria |-> [Origin |-> req.Origin, Destination |-> req.Destination,
                         DepartureDate |-> req.DepartureDate,
                         ReturnDate |-> req.ReturnDate,
                         Passengers |-> req.Passengers, CabinClass |-> req.CabinClass],
     Metadata |-> meta,
     Flights |-> leg.Flights,
     BestValueFlight |-> leg.Best,
     ReturnFlights |-> returnFlights,
     BestValueReturnFlight |-> bestReturn,
     ReturnMetadata |-> IF returnFlights = <<>> THEN 0 ELSE returnMetaPtr]
BuildResponse(req, meta, leg, returnFlights, bestReturn, returnMetaPtr) ==
    [SearchCriteria |-> [Origin |-> req.Origin, Destination |-> req.Destination,
                         DepartureDate |-> req.DepartureDate,
                         ReturnDate |-> req.ReturnDate,
                         Passengers |-> req.Passengers, CabinClass |-> req.CabinClass],
     Metadata |-> meta,
     Flights |-> leg.Flights,
     BestValueFlight |-> leg.Best,
     ReturnFlights |-> returnFlights,
     BestValueReturnFlight |-> bestReturn,
     ReturnMetadata |-> returnMetaPtr]

\* what a caller reads through the pointer Search returned
View(h, mh, ptr) ==
    [Response |-> h[ptr],
     ReturnMetadata |-> IF h[ptr].ReturnMetadata = 0 THEN Nil
                        ELSE Ptr(mh[h[ptr].ReturnMetadata])]

NewCall(req) ==
    [Req |-> req, pc |-> "outbound", Err |-> NoError, Resp |-> 0,
     Seen |-> Nil, Gets |-> 0, Sets |-> 0, Agg |-> Nil, RetAgg |-> Nil,
     Local |-> Nil]

Running == {i \in 1..Len(calls) : calls[i].pc # "done"}

\* cacheKey := s.cache.GenerateKey(req): the key of the lookup in step 2 and
\* of the Set at the end
CacheKeyOfRoute(req) == GenerateKey(BaseRequest)
CacheKeyOf(req) == GenerateKey(req)

\* Search is called with a request that fails validation
SearchRejected(req) ==
    /\ Len(calls) < MaxCalls
    /\ Running = {}
    /\ SearchValidate(req) # NoError
    /\ calls' = Append(calls, [NewCall(req) EXCEPT !.pc = "done",
                                                   !.Err = SearchValidate(req)])
    /\ UNCHANGED <<now, data, stats, lastSet, lastGet, sweptSince, heap, metaHeap, nOps, arg, ret, run>>

\* Search is called with a request that passes: steps 1 and 2, to the return
\* on a cache hit or to the call of SearchAll on a miss
SearchStart(req) ==
    /\ Len(calls) < MaxCalls
    /\ Running = {}
    /\ SearchValidate(req) = NoError
    /\ LET c1 == AfterGet(Cur, CacheKeyOf(req), now)
           ptr == c1.lastGet.Data
           heap1 == [heap EXCEPT ![ptr].Metadata.CacheHit = TRUE]
       IN  /\ Commit(c1)
           /\ IF c1.lastGet.Ok
              THEN /\ heap' = heap1
                   /\ calls' = Append(calls,
                        [NewCall(req) EXCEPT !.pc = "done", !.Resp = ptr, !.Gets = 1,
                                             !.Seen = Ptr(View(heap1, metaHeap, ptr))])
              ELSE /\ heap' = heap
                   /\ calls' = Append(calls, [NewCall(req) EXCEPT !.Gets = 1])
    /\ UNCHANGED <<now, metaHeap, nOps, arg, ret, run>>

\* the response is stored under the outbound key and returned
Finish(i, c, h, mh, agg, retAgg, resp) ==
    LET ptr == Len(h) + 1
        h2 == Append(h, resp)
        c2 == AfterSet(c, CacheKeyOf(calls[i].Req), ptr, now)
    IN  /\ Commit(c2)
        /\ heap' = h2
        /\ metaHeap' = mh
        /\ calls' = [calls EXCEPT ![i] =
                       [@ EXCEPT !.pc = "done", !.Resp = ptr,
                                 !.Seen = Ptr(View(h2, mh, ptr)),
                                 !.Gets = @ + (IF c.lastGet = lastGet THEN 0 ELSE 1),
                                 !.Sets = @ + 1,
                                 !.Agg = agg, !.RetAgg = retAgg, !.Local = Nil]]

\* the outbound SearchAll returns: step 3 to the end for a one-way request,
\* step 3 to the cache lookup of the return leg for a round trip
SearchOutbound(i) ==
    /\ i \in Running
    /\ calls[i].pc = "outbound"
    /\ LET req == calls[i].Req
           n == Len(providersToQuery(req))
       IN  \E plans \in [1..n -> Plans], order \in Perms(n) :
             LET a == SearchAll(req, plans, order)
                 aggregated == a.Out.Aggregated
                 leg == LegFlights(aggregated, req.Filters, req.SortBy, req.SortOrder)
                 meta == LegMetadata(aggregated, leg.Flights)
             IN  IF a.Out.Error # NoError /\ ~(Len(aggregated.Flights) > 0)
                 THEN /\ calls' = [calls EXCEPT ![i] =
                             [@ EXCEPT !.pc = "done", !.Err = a.Out.Error, !.Agg = Ptr(a)]]
                      /\ UNCHANGED <<data, stats, lastSet, lastGet, sweptSince, heap, metaHeap>>
                 ELSE IF ~HasReturnDate(req)
                 THEN Finish(i, Cur, heap, metaHeap, Ptr(a), Nil,
                             BuildResponse(req, meta, leg, <<>>, Nil, 0))
                 ELSE LET c1 == AfterGet(Cur, GenerateKey(ReturnRequest(req)), now)
                          cached == heap[c1.lastGet.Data]
                          rm == cached.ReturnMetadata
                          mh1 == IF rm # 0
                                 THEN [metaHeap EXCEPT ![rm].CacheHit = TRUE]
                                 ELSE metaHeap
                      IN  IF c1.lastGet.Ok
                          THEN Finish(i, c1, heap, mh1, Ptr(a), Nil,
                                      BuildResponse(req, meta, leg, cached.Flights,
                                                    cached.BestValueFlight, rm))
                          ELSE /\ Commit(c1)
                               /\ calls' = [calls EXCEPT ![i] =
                                    [@ EXCEPT !.pc = "return", !.Gets = @ + 1,
                                              !.Agg = Ptr(a),
                                              !.Local = Ptr([Leg |-> leg, Meta |-> meta])]]
                               /\ UNCHANGED <<heap, metaHeap>>
    /\ UNCHANGED <<now, nOps, arg, ret, run>>

\* the return leg's SearchAll returns: the rest of Search
SearchReturn(i) ==
    /\ i \in Running
    /\ calls[i].pc = "return"
    /\ LET req == calls[i].Req
           rreq == ReturnRequest(req)
           loc == Deref(calls[i].Local)
           n == Len(providersToQuery(rreq))
       IN  \E plans \in [1..n -> Plans], order \in Perms(n) :
             LET a == SearchAll(rreq, plans, order)
                 aggregated == a.Out.Aggregated
                 leg == LegFlights(aggregated, req.ReturnFilters,
                                   req.ReturnSortBy, req.ReturnSortOrder)
                 meta == LegMetadata(aggregated, leg.Flights)
                 mh1 == Append(metaHeap, meta)
             IN  Finish(i, Cur, heap, mh1, calls[i].Agg, Ptr(a),
                        BuildResponse(req, loc.Meta, loc.Leg, leg.Flights, leg.Best,
                                      Len(mh1)))
    /\ UNCHANGED <<now, nOps, arg, ret, run>>

Init ==
    /\ CacheInit
    /\ heap = <<>>
    /\ metaHeap = <<>>
    /\ calls = <<>>
    /\ nOps = 0
    /\ arg = <<>>
    /\ ret = <<>>
    /\ run = <<>>

SweepStep == Sweep /\ UNCHANGED <<sweptSince, heap, metaHeap, calls, nOps, arg, ret, run>>
TickStep == Tick /\ UNCHANGED <<heap, metaHeap, calls, nOps, arg, ret, run>>

Next ==
    \/ \E req \in Requests : SearchRejected(req)
    \/ \E req \in Requests : SearchStart(req)
    \/ \E i \in 1..MaxCalls : SearchOutbound(i)
    \/ \E i \in 1..MaxCalls : SearchReturn(i)
    \/ SweepStep
    \/ TickStep

Spec == Init /\ [][Next]_vars

\* ---------------------------------------------------- cache specification
\* The cache driven directly: any interleaving of Set, Get, sweeper runs and
\* clock advances, on two keys and two values.
CacheKeys == {GenerateKey(BaseRequest), GenerateKey([BaseRequest EXCEPT !.Passengers = 2])}
CacheValues == {1, 2}

CacheSetOp(key, value) ==
    /\ nOps < MaxOps
    /\ Commit(AfterSet(Cur, key, value, now))
    /\ nOps' = nOps + 1
    /\ UNCHANGED <<now, heap, metaHeap, calls, arg, ret, run>>

CacheGetOp(key) ==
    /\ nOps < MaxOps
    /\ Commit(AfterGet(Cur, key, now))
    /\ nOps' = nOps + 1
    /\ UNCHANGED <<now, heap, metaHeap, calls, arg, ret, run>>

CacheSweepOp ==
    /\ Sweep
    /\ sweptSince' = DOMAIN lastSet
    /\ UNCHANGED <<heap, metaHeap, calls, nOps, arg, ret, run>>

NextCache ==
    \/ \E key \in CacheKeys, value \in CacheValues : CacheSetOp(key, value)
    \/ \E key \in CacheKeys : CacheGetOp(key)
    \/ CacheSweepOp
    \/ TickStep

SpecCache == Init /\ [][NextCache]_vars

\* a step that is one Get of `key`
IsGetOf(key) == stats'.TotalRequests = stats.TotalRequests + 1 /\ lastGet'.Key = key

\* C2: a Get never reports a hit for an entry whose expiry time has passed:
\* every Get that returns (value, hit) read an entry that was present with
\* now <= expires_at, and returned that entry's value.
C2_GetNeverReturnsExpired ==
    [][\A key \in CacheKeys :
         (IsGetOf(key) /\ lastGet'.Ok)
           => /\ key \in DOMAIN data
              /\ ~(now > data[key].ExpiresAt)
              /\ lastGet'.Data = data[key].Data]_vars

\* C2's case: a Get found an entry the sweeper had not removed and reported a miss
C2_Witness ==
    /\ lastGet.Found
    /\ ~lastGet.Ok
    /\ lastGet.Key \in DOMAIN data
    /\ now > data[lastGet.Key].ExpiresAt

Done(i) == calls[i].pc = "done"
Succeeded(i) == Done(i) /\ calls[i].Err = NoError
\* the call computed its response (a cache miss) rather than reading it
Computed(i) == Succeeded(i) /\ calls[i].Sets = 1
SeenResponse(i) == Deref(calls[i].Seen).Response

\* the legs of SearchAll a call has made, each with the request it was for
Legs(i) ==
    (IF calls[i].Agg # Nil THEN {[Req |-> calls[i].Req, A |-> Deref(calls[i].Agg)]}
     ELSE {})
    \cup (IF calls[i].RetAgg # Nil
          THEN {[Req |-> ReturnRequest(calls[i].Req), A |-> Deref(calls[i].RetAgg)]}
          ELSE {})
AllLegs == UNION {Legs(i) : i \in 1..Len(calls)}

Failed(results) == {results[j].Provider : j \in {k \in 1..Len(results) : results[k].Error # NoError}}
OkResults(results) == SelectSeq(results, LAMBDA r : r.Error = NoError)
CountIn(seq, x) == Cardinality({j \in 1..Len(seq) : seq[j] = x})
RECURSIVE Concat(_)
Concat(seqs) == IF seqs = <<>> THEN <<>> ELSE Head(seqs) \o Concat(Tail(seqs))
FlightsOf(results) ==
    Concat([j \in 1..Len(OkResults(results)) |-> OkResults(results)[j].Flights])
SameBag(s, t) == Len(s) = Len(t) /\ \A x \in Range(s) \cup Range(t) : CountIn(s, x) = CountIn(t, x)

\* C1: a request that fails validation is answered with the validation error
\* in the step that takes it, and that step makes no cache Get (the statistics
\* are unchanged), no cache Set (the entries are unchanged) and no provider
\* call; the call is never touched again.
C1_ValidationFailureDoesNothing ==
    [][/\ Len(calls') > Len(calls)
          => LET c == calls'[Len(calls')]
             IN  ValidateSearchRequest(c.Req) # NoError
                   => /\ c.pc = "done"
                      /\ c.Err = ValidateSearchRequest(c.Req)
                      /\ IsValidationError(c.Err)
                      /\ c.Resp = 0 /\ c.Agg = Nil /\ c.RetAgg = Nil
                      /\ UNCHANGED <<data, stats, lastGet, lastSet, heap, metaHeap>>
       /\ \A i \in 1..Len(calls) :
            ValidateSearchRequest(calls[i].Req) # NoError => calls'[i] = calls[i]]_vars

\* C1's case: a rejected request (origin = destination) after the cache has
\* been filled by an earlier search
C1_Witness ==
    /\ Len(calls) = 2
    /\ Computed(1)
    /\ EqualFold(calls[2].Req.Origin, calls[2].Req.Destination)
    /\ IsValidationError(calls[2].Err)
    /\ DOMAIN data # {}
    /\ stats.TotalRequests = 1

\* C4 as claimed: marking a hit changes neither the stored entry nor what an
\* earlier caller holds: every response a caller received still reads as it
\* did when it was returned, and every stored response has cache_hit = false.
C4_HitMarksOnlyACopy ==
    /\ \A i \in 1..Len(calls) :
         (Succeeded(i) /\ calls[i].Resp # 0)
           => heap[calls[i].Resp].Metadata.CacheHit = SeenResponse(i).Metadata.CacheHit
    /\ \A key \in DOMAIN data : heap[data[key].Data].Metadata.CacheHit = FALSE

\* C5: a Search of the request of the call just before it, which computed and
\* stored its response, taken within the TTL of that store, is served in one
\* step without any provider call, and returns what the first call returned
\* except for cache_hit = true.
C5_RepeatWithinTtlIsServedFromCache ==
    [][(/\ Len(calls') > Len(calls)
        /\ Len(calls) > 0
        /\ Computed(Len(calls))
        /\ calls'[Len(calls')].Req = calls[Len(calls)].Req
        /\ now <= lastSet[GenerateKey(calls[Len(calls)].Req)].At + Ttl)
         => LET c == calls'[Len(calls')]
                first == SeenResponse(Len(calls))
            IN  /\ c.pc = "done" /\ c.Err = NoError
                /\ c.Agg = Nil /\ c.RetAgg = Nil /\ c.Sets = 0
                /\ Deref(c.Seen).Response.Flights = first.Flights
                /\ Deref(c.Seen).Response.BestValueFlight = first.BestValueFlight
                /\ Deref(c.Seen).Response =
                     [first EXCEPT !.Metadata.CacheHit = TRUE]
                /\ first.Metadata.CacheHit = FALSE
                /\ data' = data]_vars

\* C5's case: the second of two searches of one request returned a cache hit
\* with flights, after the clock advanced and the sweeper could run
C5_Witness ==
    /\ Len(calls) = 2
    /\ calls[1].Req = calls[2].Req
    /\ Computed(1) /\ Succeeded(2)
    /\ calls[2].Sets = 0 /\ calls[2].Agg = Nil
    /\ SeenResponse(2).Metadata.CacheHit
    /\ SeenResponse(2).Flights # <<>>
    /\ now > lastSet[GenerateKey(calls[1].Req)].At

\* C6: SearchAll returns the error "no flights found from any provider"
\* exactly when no provider returned a flight, and then still returns the
\* aggregate with an error entry for every provider that failed; with any
\* flight collected it returns no error, however many providers failed.
C6_SearchAllErrorIffNoFlights ==
    \A leg \in AllLegs :
        LET out == leg.A.Out
            none == Len(FlightsOf(leg.A.Results)) = 0
        IN  /\ (out.Error # NoError) <=> none
            /\ none => /\ out.Error = ErrNoFlightsAnyProvider
                       /\ out.Aggregated.Flights = <<>>
                       /\ DOMAIN out.Aggregated.ProviderErrors = Failed(leg.A.Results)
            /\ ~none => out.Error = NoError

\* C6's cases: a SearchAll in which every provider failed, and one that
\* returned flights although a provider failed
C6_Witness ==
    /\ \E leg \in AllLegs :
         /\ leg.A.Out.Error = ErrNoFlightsAnyProvider
         /\ Cardinality(DOMAIN leg.A.Out.Aggregated.ProviderErrors) = 2
    /\ \E leg \in AllLegs :
         /\ leg.A.Out.Error = NoError
         /\ Failed(leg.A.Results) # {}

\* C7: when a selected provider of the outbound leg returned a flight, Search
\* does not fail; the flights it works on before filtering are, as a bag, the
\* flights of the providers that succeeded, and the metadata of the response
\* has an error entry for exactly the selected providers that failed.
C7_PartialFailureSucceeds ==
    \A i \in 1..Len(calls) :
        (calls[i].Agg # Nil /\ FlightsOf(Deref(calls[i].Agg).Results) # <<>>)
          => LET a == Deref(calls[i].Agg)
             IN  /\ calls[i].Err = NoError
                 /\ SameBag(a.Out.Aggregated.Flights, FlightsOf(a.Results))
                 /\ Done(i) =>
                      /\ calls[i].Resp # 0
                      /\ DOMAIN SeenResponse(i).Metadata.ProviderErrors = Failed(a.Results)
                      /\ Failed(a.Results) \subseteq Range(a.Selected)

\* C7's case: a returned response with flights from one provider and an error
\* entry for the other
C7_Witness ==
    \E i \in 1..Len(calls) :
        /\ Computed(i)
        /\ Len(Deref(calls[i].Agg).Selected) = 2
        /\ Cardinality(DOMAIN SeenResponse(i).Metadata.ProviderErrors) = 1
        /\ SeenResponse(i).Flights # <<>>

\* the providers an airline list names, ignoring case
Named(req) == {prov \in Range(Providers) :
                 \E j \in 1..Len(Deref(req.Filters).Airlines) :
                    EqualFold(prov, Deref(req.Filters).Airlines[j])}

\* C8: with a non-empty airline list SearchAll queries exactly the providers
\* whose name equals a member ignoring case, each once; with no such provider,
\* an empty list or no filters it queries every configured provider.
C8_ProviderSelection ==
    \A leg \in AllLegs :
        LET expected == IF ~IsNil(leg.Req.Filters)
                           /\ Len(Deref(leg.Req.Filters).Airlines) > 0
                           /\ Named(leg.Req) # {}
                        THEN Named(leg.Req) ELSE Range(Providers)
        IN  /\ Range(leg.A.Selected) = expected
            /\ Len(leg.A.Results) = Cardinality(expected)
            /\ {leg.A.Results[j].Provider : j \in 1..Len(leg.A.Results)} = expected

\* C8's cases: a list naming one provider in another letter case, and a list
\* naming none
C8_Witness ==
    /\ \E leg \in AllLegs :
         /\ HasAirlineFilter(leg.Req)
         /\ Garuda \notin Range(Deref(leg.Req.Filters).Airlines)
         /\ leg.A.Selected = <<Garuda>>
    /\ \E leg \in AllLegs :
         /\ HasAirlineFilter(leg.Req)
         /\ leg.A.Selected = Providers

\* C9 as claimed: providers_queried of a computed response is the number of
\* providers selected and queried for the outbound leg.
C9_ProvidersQueriedCountsSelected ==
    \A i \in 1..Len(calls) :
        Computed(i) =>
            SeenResponse(i).Metadata.ProvidersQueried = Len(Deref(calls[i].Agg).Selected)

\* C10 as claimed: with a non-empty airline list every flight of the response
\* comes from a provider whose name equals a member of the list ignoring case.
C10_FlightsOnlyFromListedAirlines ==
    \A i \in 1..Len(calls) :
        (Succeeded(i) /\ calls[i].Resp # 0 /\ HasAirlineFilter(calls[i].Req))
          => \A f \in Range(SeenResponse(i).Flights) :
               \E j \in 1..Len(Deref(calls[i].Req.Filters).Airlines) :
                  EqualFold(f.Provider, Deref(calls[i].Req.Filters).Airlines[j])

\* ------------------------------------------ specifications of one operation
\* One call of one operation: the arguments are drawn at the start, the step
\* applies the operation to them.
MaxFlights == 3       \* the longest flight list passed to an operation

\* the converted flights of the mock data
FlightUniverse == Range(MockData(Garuda)) \cup Range(MockData(Lion))
SeqsUpTo(S, n) == UNION {[1..k -> S] : k \in 0..n}

InitOp(inputs) ==
    /\ CacheInit
    /\ heap = <<>>
    /\ metaHeap = <<>>
    /\ calls = <<>>
    /\ nOps = 0
    /\ arg \in inputs
    /\ ret = Nil
    /\ run = <<>>

ApplyOp(result) ==
    /\ ret = Nil
    /\ ret' = Ptr(result)
    /\ UNCHANGED <<now, data, stats, lastSet, lastGet, sweptSince,
                   heap, metaHeap, calls, nOps, arg, run>>

\* the step of an operation that has several outcomes
ApplyOpAny(results) ==
    /\ ret = Nil
    /\ \E result \in results : ret' = Ptr(result)
    /\ UNCHANGED <<now, data, stats, lastSet, lastGet, sweptSince,
                   heap, metaHeap, calls, nOps, arg, run>>

\* the step of an operation that has several outcomes and may write to the
\* slice it was passed
ApplyOpOnSlice(outcomes) ==
    /\ ret = Nil
    /\ \E o \in outcomes :
         /\ ret' = Ptr(o.Result)
         /\ arg' = [arg EXCEPT !.Flights = o.Flights]
    /\ UNCHANGED <<now, data, stats, lastSet, lastGet, sweptSince,
                   heap, metaHeap, calls, nOps, run>>

\* ---- FilterEngine.Apply
\* every filter absent or set, with flights on both edges of each range
FilterChoices ==
    [MinPrice : {Nil, Ptr(900)}, MaxPrice : {Nil, Ptr(1000)},
     MaxStops : {Nil, Ptr(0)}, Airlines : {<<>>},
     DepartureTime : {Nil, Ptr([Start |-> 6, End |-> 14])},
     ArrivalTime : {Nil, Ptr([Start |-> 9, End |-> 11])},
     MaxDuration : {Nil, Ptr(120)}]

InitFilter ==
    InitOp([Flights : SeqsUpTo(FlightUniverse, MaxFlights), Filters : FilterChoices])
CallFilterApply == ApplyOp(FilterApply(arg.Flights, arg.Filters))
NextFilter == CallFilterApply
SpecFilter == InitFilter /\ [][NextFilter]_vars

\* C11: FilterEngine.Apply returns the flights of its input that satisfy
\* every enabled predicate (min_price <= price <= max_price, stops <=
\* max_stops, departure and arrival hour within [start, end] inclusive,
\* total minutes <= max_duration), each once and in input order.
C11_ApplyKeepsExactlyTheMatches ==
    ret # Nil =>
        LET F == arg.Filters
            Satisfies(f) ==
                /\ IsNil(F.MinPrice) \/ Deref(F.MinPrice) <= f.Price
                /\ IsNil(F.MaxPrice) \/ f.Price <= Deref(F.MaxPrice)
                /\ IsNil(F.MaxStops) \/ f.Stops <= Deref(F.MaxStops)
                /\ IsNil(F.DepartureTime)
                     \/ f.DepHour \in Deref(F.DepartureTime).Start..Deref(F.DepartureTime).End
                /\ IsNil(F.ArrivalTime)
                     \/ f.ArrHour \in Deref(F.ArrivalTime).Start..Deref(F.ArrivalTime).End
                /\ IsNil(F.MaxDuration) \/ f.Duration <= Deref(F.MaxDuration)
            kept == {i \in 1..Len(arg.Flights) : Satisfies(arg.Flights[i])}
            out == Deref(ret)
        IN  /\ Len(out) = Cardinality(kept)
            /\ \A x \in FlightUniverse : CountIn(out, x) <= CountIn(arg.Flights, x)
            /\ \E pos \in [1..Len(out) -> kept] :
                 /\ \A j \in 1..Len(out) : out[j] = arg.Flights[pos[j]]
                 /\ \A j, k \in 1..Len(out) : j < k => pos[j] < pos[k]

\* C11's case: all five filters set, applied to a list that holds a flight
\* twice; some flights are kept and some are dropped
C11_Witness ==
    /\ ret # Nil
    /\ \A name \in {"MinPrice", "MaxPrice", "MaxStops", "DepartureTime",
                    "ArrivalTime", "MaxDuration"} : ~IsNil(arg.Filters[name])
    /\ Len(Deref(ret)) = 2
    /\ Len(arg.Flights) = 3
    /\ Deref(ret)[1] = Deref(ret)[2]

\* ---- Sorter.Sort
LongLen == 13         \* the length of the long lists, above sort.Slice's 12

\* long lists: one one-stop flight LongLen - 2 times, and two different
\* flights that tie with each other on the key, at three places of the list
LongListsOf(a, b, filler) ==
    LET places == {2, (LongLen + 1) \div 2, LongLen}
    IN  {[i \in 1..LongLen |-> IF i = pq[1] THEN a ELSE IF i = pq[2] THEN b ELSE filler] :
           pq \in {x \in places \X places : x[1] # x[2]}}
LongLists == LongListsOf(MockData(Garuda)[1], MockData(Lion)[1], MockData(Garuda)[2])

SortKeys == {"price", "duration", "departure", "arrival", "stops"}

InitSort ==
    InitOp([Flights : SeqsUpTo(FlightUniverse, MaxFlights) \cup LongLists,
            SortBy : SortKeys \cup {"rating"},
            SortOrder : {"asc", "desc", ""}])
CallSorterSort == ApplyOpOnSlice(SorterSortCall(arg.Flights, arg.SortBy, arg.SortOrder))
NextSort == CallSorterSort
SpecSort == InitSort /\ [][NextSort]_vars

\* the value the claims sort by
KeyOf(f, sortBy) ==
    CASE sortBy = "price" -> f.Price
      [] sortBy = "duration" -> f.Duration
      [] sortBy = "departure" -> f.Dep
      [] sortBy = "arrival" -> f.Arr
      [] sortBy = "stops" -> f.Stops

\* C12: for each of the five sort keys, Sort returns a permutation of its
\* input that is non-decreasing in the key unless sort_order is "desc", and
\* non-increasing when it is; the slice passed in is left as it was.
C12_SortOrdersAPermutation ==
    [][(ret = Nil /\ ret' # Nil /\ arg.SortBy \in SortKeys)
         => LET out == Deref(ret')
            IN  /\ arg'.Flights = arg.Flights
                /\ SameBag(out, arg.Flights)
                /\ \A i \in 1..Len(out) - 1 :
                     IF arg.SortOrder = "desc"
                     THEN KeyOf(out[i], arg.SortBy) >= KeyOf(out[i + 1], arg.SortBy)
                     ELSE KeyOf(out[i], arg.SortBy) <= KeyOf(out[i + 1], arg.SortBy)]_vars

\* C12's case: a list that was not in order, sorted with an empty sort_order,
\* and one sorted descending
C12_Witness ==
    /\ ret # Nil
    /\ arg.SortBy = "price"
    /\ arg.SortOrder = ""
    /\ Len(arg.Flights) = 3
    /\ Deref(ret) # arg.Flights
    /\ Deref(ret)[1].Price < Deref(ret)[2].Price
    /\ Deref(ret)[2].Price < Deref(ret)[3].Price

\* C13 as claimed: Sort is stable for lists of every length: the flights of
\* each key value stand in the output in the order they have in the input.
C13_SortIsStable ==
    (ret # Nil /\ arg.SortBy \in SortKeys)
      => \A k \in {KeyOf(f, arg.SortBy) : f \in Range(arg.Flights)} :
            LET HasK(f) == KeyOf(f, arg.SortBy) = k
            IN  SelectSeq(Deref(ret), HasK) = SelectSeq(arg.Flights, HasK)

\* ---- Search steps 4 to 6 of one leg
\* a second provider's offer of the flight GA410: the same price, duration,
\* stops and times under another id
TwinFlight == [MockData(Garuda)[2] EXCEPT !.ID = "JT410_Lion Air", !.Provider = Lion]
ScoreUniverse == FlightUniverse \cup {TwinFlight}

InitLeg ==
    InitOp([Flights : SeqsUpTo(ScoreUniverse, MaxFlights)
                        \cup LongListsOf(MockData(Garuda)[2], TwinFlight, MockData(Garuda)[1]),
            Filters : {Nil, Ptr([NoFilters EXCEPT !.MaxStops = Ptr(0)])},
            SortBy : {"", "price"},
            SortOrder : {""}])
CallLeg == ApplyOpAny(LegOutcomes(arg, arg.Filters, arg.SortBy, arg.SortOrder))
NextLeg == CallLeg
SpecLeg == InitLeg /\ [][NextLeg]_vars

\* the total score of the flight at position i of a list
ScoreAt(flights, i) ==
    LET scored == ScoreFlights(flights)
    IN  scored[CHOOSE j \in 1..Len(scored) : scored[j].Flight = flights[i]].Score

\* C14 as claimed: best_value_flight is present exactly when the list after
\* filtering is non-empty, and it is then the first flight of that list, in
\* list order, among those whose total score is the maximum.
C14_BestIsFirstOfTheTopScored ==
    ret # Nil =>
        LET post == Deref(ret).Filtered
            best == Deref(ret).Best
            top == {i \in 1..Len(post) :
                      \A j \in 1..Len(post) : ScoreAt(post, i) >= ScoreAt(post, j)}
        IN  /\ (best # Nil) <=> (post # <<>>)
            /\ best # Nil => Deref(best) = post[SetMin(top)]

\* ---- the validator and the handler's answer to its error
FilterCases ==
    {NoFilters,
     [NoFilters EXCEPT !.MinPrice = Ptr(-1)],
     [NoFilters EXCEPT !.MaxPrice = Ptr(-1)],
     [NoFilters EXCEPT !.MinPrice = Ptr(900), !.MaxPrice = Ptr(700)],
     [NoFilters EXCEPT !.MinPrice = Ptr(700), !.MaxPrice = Ptr(700)],
     [NoFilters EXCEPT !.MaxStops = Ptr(-1)],
     [NoFilters EXCEPT !.MaxStops = Ptr(0)],
     [NoFilters EXCEPT !.DepartureTime = Ptr([Start |-> 24, End |-> 24])],
     [NoFilters EXCEPT !.DepartureTime = Ptr([Start |-> 0, End |-> 23])],
     [NoFilters EXCEPT !.DepartureTime = Ptr([Start |-> 10, End |-> 5])],
     [NoFilters EXCEPT !.ArrivalTime = Ptr([Start |-> -1, End |-> 5])],
     [NoFilters EXCEPT !.ArrivalTime = Ptr([Start |-> 5, End |-> 24])],
     [NoFilters EXCEPT !.ArrivalTime = Ptr([Start |-> 5, End |-> 5])],
     [NoFilters EXCEPT !.MaxDuration = Ptr(0)],
     [NoFilters EXCEPT !.MaxDuration = Ptr(1)]}

ValidateRequests ==
    {[BaseRequest EXCEPT !.Origin = r.Origin, !.Destination = r.Destination,
                         !.DepartureDate = r.DepartureDate, !.ReturnDate = r.ReturnDate,
                         !.Passengers = r.Passengers, !.CabinClass = r.CabinClass,
                         !.Filters = r.Filters, !.ReturnFilters = r.ReturnFilters] :
       r \in [Origin : {CGK, <<>>, <<"C","G","1">>, <<"d","p","s">>},
              Destination : {DPS, <<"D","P","S","X">>, <<"D","P">>},
              DepartureDate : {DateOut, "", "15/12/2025", "2025-13-45"},
              ReturnDate : {Nil, Ptr(""), Ptr(DateBack), Ptr("2025-12-10"), Ptr("22.12.2025")},
              Passengers : {0, 1, 9, 10},
              CabinClass : {Economy, <<"B","U","S","I","N","E","S","S">>, <<>>, <<"v","i","p">>},
              Filters : {Nil} \cup {Ptr(f) : f \in FilterCases},
              ReturnFilters : {Nil, Ptr(NoFilters), Ptr([NoFilters EXCEPT !.MaxStops = Ptr(-1)])}]}

InitValidate == InitOp(ValidateRequests)
\* step 1 of Search: the validator's verdict, which Search returns as it is
CallValidate == ApplyOp(ValidateSearchRequest(arg))
\* Handler.Search answering the error Search returned
RespondError ==
    /\ Len(ret) = 1
    /\ ret[1] # NoError
    /\ ret' = ret \o <<HandlerErrorResponse(ValidationErrorText(ret[1]))>>
    /\ UNCHANGED <<now, data, stats, lastSet, lastGet, sweptSince,
                   heap, metaHeap, calls, nOps, arg, run>>
NextValidate == CallValidate \/ RespondError
SpecValidate == InitValidate /\ [][NextValidate]_vars

\* C15 as claimed: every validation failure is answered with status 400 and
\* the error type "Validation error", never with 500 or 504.
C15_ValidationFailureIs400 ==
    Len(ret) = 2 => ret[2] = [Status |-> StatusBadRequest, Error |-> "Validation error"]

\* the conditions of C16, read off the request
BadAirportCode(code) == Len(code) # 3 \/ \E i \in 1..Len(code) : ~IsLetter(code[i])
AcceptedDates ==
    {"2025-12-15", "2025/12/15", "15-12-2025", "15/12/2025", "2025-12-22", "2025-12-10"}
BadTimeRange(p) ==
    /\ p # Nil
    /\ \/ Deref(p).Start \notin 0..23
       \/ Deref(p).End \notin 0..23
       \/ Deref(p).Start > Deref(p).End
BadFilters(p) ==
    /\ p # Nil
    /\ LET f == Deref(p)
       IN  \/ f.MinPrice # Nil /\ Deref(f.MinPrice) < 0
           \/ f.MaxPrice # Nil /\ Deref(f.MaxPrice) < 0
           \/ f.MinPrice # Nil /\ f.MaxPrice # Nil /\ Deref(f.MaxPrice) < Deref(f.MinPrice)
           \/ f.MaxStops # Nil /\ Deref(f.MaxStops) < 0
           \/ BadTimeRange(f.DepartureTime)
           \/ BadTimeRange(f.ArrivalTime)
           \/ f.MaxDuration # Nil /\ Deref(f.MaxDuration) <= 0
Rejectable(req) ==
    \/ BadAirportCode(req.Origin)
    \/ BadAirportCode(req.Destination)
    \/ ToLower(req.Origin) = ToLower(req.Destination)
    \/ req.DepartureDate \notin AcceptedDates
    \/ HasReturnDate(req) /\ Deref(req.ReturnDate) \notin AcceptedDates
    \/ /\ HasReturnDate(req)
       /\ Deref(req.ReturnDate) \in AcceptedDates
       /\ req.DepartureDate \in AcceptedDates
       /\ ParseDate(Deref(req.ReturnDate)) < ParseDate(req.DepartureDate)
    \/ req.Passengers \notin 1..9
    \/ ToLower(req.CabinClass) \notin {Economy, Premium, Business, First}
    \/ BadFilters(req.Filters)
    \/ BadFilters(req.ReturnFilters)

\* C16: ValidateSearchRequest returns an error exactly when the request has a
\* bad airport code, equal origin and destination (letter case ignored), a
\* departure or return date in none of the four formats, a return date
\* before the departure date, a passenger count outside 1..9, a cabin class
\* outside the four classes, or a filter violation; the error is one
\* {field, message} pair.  (The validator reads nothing but the request, so
\* its verdict is a function of the request.)
C16_ErrorExactlyOnABadRequest ==
    ret # Nil =>
        LET err == ret[1]
        IN  /\ (err # NoError) <=> Rejectable(arg)
            /\ err # NoError => (IsValidationError(err) /\ Len(err) = 3)

\* C16's case: a round trip whose only fault is a return date before the
\* departure date, rejected on the field ReturnDate
C16_Witness ==
    /\ ret # Nil
    /\ arg = [BaseRequest EXCEPT !.ReturnDate = Ptr("2025-12-10")]
    /\ ret[1] = ValidationError("ReturnDate", "return date must be on or after departure date")

\* ---- round trips
\* a round trip with its own sort of the return leg, one with a filter on
\* the return leg, and the one-way request of the first one's return leg
RoundTripSorted ==
    [BaseRequest EXCEPT !.ReturnDate = Ptr(DateBack),
                        !.Filters = Ptr([NoFilters EXCEPT !.MaxStops = Ptr(0)]),
                        !.SortBy = "duration", !.SortOrder = "asc",
                        !.ReturnSortBy = "price", !.ReturnSortOrder = "desc"]
RoundTripFiltered ==
    [BaseRequest EXCEPT !.ReturnDate = Ptr(DateBack),
                        !.Passengers = 2, !.CabinClass = Business,
                        !.ReturnFilters = Ptr([NoFilters EXCEPT !.MaxDuration = Ptr(120)])]
OneWayBack ==
    [BaseRequest EXCEPT !.Origin = DPS, !.Destination = CGK, !.DepartureDate = DateBack,
                        !.SortBy = "price", !.SortOrder = "desc"]
RoundRequests == {RoundTripSorted, RoundTripFiltered, OneWayBack}

NextRound ==
    \/ \E req \in RoundRequests : SearchStart(req)
    \/ \E i \in 1..MaxCalls : SearchOutbound(i)
    \/ \E i \in 1..MaxCalls : SearchReturn(i)
    \/ TickStep
SpecRound == Init /\ [][NextRound]_vars

\* the return-leg request C17 describes
Swapped(req) ==
    [req EXCEPT !.Origin = req.Destination, !.Destination = req.Origin,
                !.DepartureDate = Deref(req.ReturnDate), !.ReturnDate = Nil,
                !.Filters = req.ReturnFilters, !.SortBy = req.ReturnSortBy,
                !.SortOrder = req.ReturnSortOrder,
                !.ReturnFilters = Nil, !.ReturnSortBy = "", !.ReturnSortOrder = ""]

Passes(f, filters) ==
    \/ IsNil(filters)
    \/ LET F == Deref(filters)
       IN  /\ IsNil(F.MinPrice) \/ Deref(F.MinPrice) <= f.Price
           /\ IsNil(F.MaxPrice) \/ f.Price <= Deref(F.MaxPrice)
           /\ IsNil(F.MaxStops) \/ f.Stops <= Deref(F.MaxStops)
           /\ IsNil(F.DepartureTime)
                \/ f.DepHour \in Deref(F.DepartureTime).Start..Deref(F.DepartureTime).End
           /\ IsNil(F.ArrivalTime)
                \/ f.ArrHour \in Deref(F.ArrivalTime).Start..Deref(F.ArrivalTime).End
           /\ IsNil(F.MaxDuration) \/ f.Duration <= Deref(F.MaxDuration)

\* a round trip's Search reaches its return leg in this step
ReachesReturnLeg(i) ==
    /\ i \in 1..Len(calls)
    /\ calls[i].pc = "outbound"
    /\ HasReturnDate(calls[i].Req)
    /\ calls'[i].pc = "return" \/ (calls'[i].pc = "done" /\ calls'[i].Err = NoError)

\* C17: with a return_date the return leg is searched with origin and
\* destination swapped, the return date as departure date, the same
\* passengers and cabin class, return_filters as filters and the return
\* sort as sort; the cache is looked up under that request's key, and the
\* return flights are the found ones that pass return_filters, in the order
\* of the return sort.
C17_ReturnLegIsTheSwappedRequest ==
    /\ [][\A i \in 1..MaxCalls :
            ReachesReturnLeg(i) => IsGetOf(GenerateKey(Swapped(calls[i].Req)))]_vars
    /\ [](\A i \in 1..Len(calls) :
            (Done(i) /\ calls[i].RetAgg # Nil) =>
              LET req == calls[i].Req
                  leg == Deref(calls[i].RetAgg)
                  found == leg.Out.Aggregated.Flights
                  out == SeenResponse(i).ReturnFlights
              IN  /\ leg.Req = Swapped(req)
                  /\ leg.Req.Origin = req.Destination
                  /\ leg.Req.Destination = req.Origin
                  /\ leg.Req.DepartureDate = Deref(req.ReturnDate)
                  /\ leg.Req.Passengers = req.Passengers
                  /\ leg.Req.CabinClass = req.CabinClass
                  /\ \A f \in Range(found) :
                       f.Origin = req.Destination /\ f.Destination = req.Origin
                       /\ f.Date = Deref(req.ReturnDate)
                  /\ Range(out) = {f \in Range(found) : Passes(f, req.ReturnFilters)}
                  /\ Len(out) = Cardinality(Range(out))
                  /\ req.ReturnSortBy \in SortKeys =>
                       \A k \in 1..Len(out) - 1 :
                         IF req.ReturnSortOrder = "desc"
                         THEN KeyOf(out[k], req.ReturnSortBy) >= KeyOf(out[k + 1], req.ReturnSortBy)
                         ELSE KeyOf(out[k], req.ReturnSortBy) <= KeyOf(out[k + 1], req.ReturnSortBy))

\* C17's case: the return leg of the sorted round trip found the cheaper
\* flight first and the response lists the dearer one first
C17_Witness ==
    \E i \in 1..Len(calls) :
        /\ Done(i)
        /\ calls[i].Req = RoundTripSorted
        /\ calls[i].RetAgg # Nil
        /\ Len(Deref(calls[i].RetAgg).Out.Aggregated.Flights) = 2
        /\ Deref(calls[i].RetAgg).Out.Aggregated.Flights[1].Price = 800
        /\ Len(SeenResponse(i).ReturnFlights) = 2
        /\ SeenResponse(i).ReturnFlights[1].Price = 1000

\* C18 as claimed: every successful response to a request with a return date
\* carries return metadata, whether the return leg missed the cache or hit it.
C18_ReturnMetadataAlwaysPresent ==
    \A i \in 1..Len(calls) :
        (Succeeded(i) /\ HasReturnDate(calls[i].Req))
          => Deref(calls[i].Seen).ReturnMetadata # Nil

\* ---- one provider task: RetryWithCheck around provider.Search
MaxRetry == 3         \* the largest retry.max_attempts looked at
RetryEvents ==
    {"ok", "unavailable", "invalid", "badstatus", "timeout", "ctxdone", "waitdone"}
\* no wait comes before the first attempt
RetryPlans == {plan \in [1..MaxRetry -> RetryEvents] : plan[1] # "waitdone"}
\* a route no backend flies
NoRoute == [BaseRequest EXCEPT !.Destination = <<"S","U","B">>]

InitRetry ==
    InitOp([Provider : Range(Providers), Req : {BaseRequest, NoRoute},
            Params : {[MaxAttempts |-> n] : n \in 1..MaxRetry},
            Plan : RetryPlans])
CallQueryProvider ==
    ApplyOp(RetryFrom(arg.Provider, arg.Req, arg.Plan, arg.Params, 1, NoError))
NextRetry == CallQueryProvider
SpecRetry == InitRetry /\ [][NextRetry]_vars

\* the attempt at which the task of `a` ends: the first one that succeeds,
\* finds no flights or meets the deadline, or else the last one
LastAttempt(a) ==
    SetMin({k \in 1..a.Params.MaxAttempts :
              \/ a.Plan[k] \in {"ok", "timeout", "ctxdone", "waitdone"}
              \/ k = a.Params.MaxAttempts})
\* the deadline passes while the task is running or being retried
DeadlinePasses(a) == a.Plan[LastAttempt(a)] \in {"timeout", "ctxdone", "waitdone"}
HasFlights(a) ==
    \E f \in Range(MockData(a.Provider)) :
        f.Origin = a.Req.Origin /\ f.Destination = a.Req.Destination
        /\ f.Date = a.Req.DepartureDate

\* C19 as claimed: a provider that is still running or being retried when
\* the aggregator's deadline passes is cancelled, and the error recorded for
\* it wraps the provider-timeout kind, whatever the retry configuration.
C19_DeadlineGivesProviderTimeout ==
    (ret # Nil /\ DeadlinePasses(arg))
      => ErrorIs(Deref(ret).Error, ErrProviderTimeout)

\* C20 as claimed: a Search that returns NoFlights is invoked once; after a
\* Timeout, Unavailable, InvalidResponse or unknown error Search is invoked
\* again until it succeeds or max_attempts is reached.
C20_RetriedUntilSuccessOrMaxAttempts ==
    ret # Nil =>
        LET ends == SetMin({k \in 1..arg.Params.MaxAttempts :
                              arg.Plan[k] = "ok" \/ k = arg.Params.MaxAttempts})
        IN  (\A k \in 1..ends : arg.Plan[k] \notin {"ctxdone", "waitdone"})
              => Deref(ret).Calls = ends

\* C20 amended: a Search that returns NoFlights is not invoked again and its
\* error is returned as it is; after an Unavailable, InvalidResponse or
\* unknown error Search is invoked again until it succeeds, finds no
\* flights, max_attempts is reached or the context is done; a Timeout, which
\* comes from a done context, is never followed by another invocation.
C20_RetriedUntilSuccessMaxAttemptsOrDone ==
    ret # Nil =>
        LET last == LastAttempt(arg)
            r == Deref(ret)
        IN  /\ r.Calls = IF arg.Plan[last] \in {"ctxdone", "waitdone"}
                         THEN last - 1 ELSE last
            /\ arg.Plan[last] = "ok" =>
                 r.Error = IF HasFlights(arg) THEN NoError ELSE <<ErrNoFlightsFound>>
            /\ arg.Plan[last] # "ok" => r.Error # NoError /\ r.Flights = <<>>

\* C20's case: the first attempt fails as unavailable and is retried, the
\* second finds no flights and is not, with a third attempt allowed
C20_Witness ==
    /\ ret # Nil
    /\ arg.Params.MaxAttempts = 3
    /\ arg.Req = NoRoute
    /\ arg.Plan[1] = "unavailable"
    /\ arg.Plan[2] = "ok"
    /\ Deref(ret).Calls = 2
    /\ Deref(ret).Error = <<ErrNoFlightsFound>>

\* ---- the retry executor on any operation
\* RetryWithCheck(ctx, params, fn, operationName) as the trace of what it
\* does.  fn[k] is what the k-th invocation of the operation returns (an
\* error or none, and the shouldRetry flag).  The waitable points are
\* numbered: 2k - 1 is the check before attempt k, 2k the wait after it;
\* cancelAt is the point at which the executor finds ctx.Done() ready (Nil:
\* at none).  A token cancelled while the operation runs is found at the
\* wait that follows, or, when the timer of that wait wins the select, at
\* the next check.  Delays are whole time units and BackoffMultiplier is
\* given in halves, so that the float product is exact.
MaxTries == 4         \* the largest max_attempts looked at
OperationName == "op: "

CheckEvent(found) == [Kind |-> "check", Cancelled |-> found, Attempt |-> 0, Delay |-> 0]
InvokeEvent(attempt) == [Kind |-> "invoke", Cancelled |-> FALSE, Attempt |-> attempt, Delay |-> 0]
WaitEvent(delay, found) == [Kind |-> "wait", Cancelled |-> found, Attempt |-> 0, Delay |-> delay]

\* the select on ctx.Done() at a waitable point
DoneNever(cancelAt, point) == FALSE
DoneAt(cancelAt, point) == ~IsNil(cancelAt) /\ Deref(cancelAt) <= point

\* "if err == nil": the shouldRetry flag is not looked at
IsSuccessUnlessRetry(out) == out.Err = NoError /\ ~out.ShouldRetry
IsSuccess(out) == out.Err = NoError

\* what is returned for an error the operation calls not retryable
StopErrorWrapped(err) == <<OperationName, "failed: ">> \o err
StopError(err) == err

\* "if attempt == params.MaxAttempts { break }"
IsLastAttemptNever(attempt, params) == FALSE
IsLastAttempt(attempt, params) == attempt = params.MaxAttempts

\* the delay of the next wait
NextDelay(currentDelay, params) ==
    LET scaled == (currentDelay * params.BackoffMultiplier) \div 2
    IN  IF scaled > params.MaxDelay THEN params.MaxDelay ELSE scaled

\* fn(): the error of the k-th invocation names the invocation
ErrOfAttempt(k) == <<"operation failed at invocation " \o ToString(k)>>
FnResult(fn, k) ==
    [Err |-> IF fn[k].Failed THEN ErrOfAttempt(k) ELSE NoError,
     ShouldRetry |-> fn[k].ShouldRetry]

RECURSIVE RetryLoop(_, _, _, _, _)
RetryLoop(in, attempt, currentDelay, lastErr, trace) ==
    IF attempt > in.Params.MaxAttempts
    THEN [Err |-> <<OperationName, "failed after attempts: ">> \o lastErr,
          Trace |-> trace]
    ELSE IF DoneAt(in.CancelAt, 2 * attempt - 1)
    THEN [Err |-> <<OperationName, "context cancelled: ", in.CtxErr>>,
          Trace |-> Append(trace, CheckEvent(TRUE))]
    ELSE LET out == FnResult(in.Fn, attempt)
             invoked == trace \o <<CheckEvent(FALSE), InvokeEvent(attempt)>>
         IN  IF IsSuccess(out)
             THEN [Err |-> NoError, Trace |-> invoked]
             ELSE IF ~out.ShouldRetry
             THEN [Err |-> StopError(out.Err), Trace |-> invoked]
             ELSE IF IsLastAttempt(attempt, in.Params)
             THEN [Err |-> <<OperationName, "failed after attempts: ">> \o out.Err,
                   Trace |-> invoked]
             ELSE IF DoneAt(in.CancelAt, 2 * attempt)
             THEN [Err |-> <<OperationName, "context cancelled during retry wait: ",
                             in.CtxErr>>,
                   Trace |-> Append(invoked, WaitEvent(currentDelay, TRUE))]
             ELSE RetryLoop(in, attempt + 1, NextDelay(currentDelay, in.Params),
                            out.Err,
                            Append(invoked, WaitEvent(currentDelay, FALSE)))

RetryWithCheck(in) == RetryLoop(in, 1, in.Params.InitialDelay, NoError, <<>>)

\* the plans of the operation: whether its k-th invocation fails, and the
\* shouldRetry flag it returns
FnPlans == [1..MaxTries -> [Failed : BOOLEAN, ShouldRetry : BOOLEAN]]

InitExecutor ==
    InitOp([Params : [MaxAttempts : 0..MaxTries, InitialDelay : {0, 4, 20},
                      MaxDelay : {8}, BackoffMultiplier : {1, 2, 4}],
            Fn : FnPlans,
            CancelAt : {Nil} \cup {Ptr(p) : p \in 1..(2 * MaxTries)},
            CtxErr : {"context canceled", ContextDeadlineExceeded}])
CallRetryWithCheck == ApplyOp(RetryWithCheck(arg))
NextExecutor == CallRetryWithCheck
SpecExecutor == InitExecutor /\ [][NextExecutor]_vars

\* what a trace shows
InvokesOf(trace) == SelectSeq(trace, LAMBDA e : e.Kind = "invoke")
WaitsOf(trace) == SelectSeq(trace, LAMBDA e : e.Kind = "wait")
RECURSIVE Pow(_, _)
Pow(b, e) == IF e = 0 THEN 1 ELSE b * Pow(b, e - 1)

\* C21: RetryWithCheck invokes the operation at most max_attempts times, and
\* the first invocation that returns no error is the last thing it does:
\* it returns nil with no further invocation and no wait.
C21_AtMostMaxAttemptsAndStopsOnSuccess ==
    ret # Nil =>
        LET r == Deref(ret)
            tr == r.Trace
        IN  /\ Len(InvokesOf(tr)) <= arg.Params.MaxAttempts
            /\ \A k \in 1..Len(InvokesOf(tr)) : InvokesOf(tr)[k].Attempt = k
            /\ \A i \in 1..Len(tr) :
                 (tr[i].Kind = "invoke" /\ ~arg.Fn[tr[i].Attempt].Failed)
                   => (i = Len(tr) /\ r.Err = NoError)
            /\ r.Err = NoError =>
                 (tr # <<>> /\ tr[Len(tr)].Kind = "invoke"
                  /\ ~arg.Fn[tr[Len(tr)].Attempt].Failed)

\* C21's case: the first invocation fails and is retried, the second returns
\* no error together with shouldRetry = true, and two more attempts are left
C21_Witness ==
    /\ ret # Nil
    /\ arg.Params.MaxAttempts = 4
    /\ arg.Fn[1] = [Failed |-> TRUE, ShouldRetry |-> TRUE]
    /\ arg.Fn[2] = [Failed |-> FALSE, ShouldRetry |-> TRUE]
    /\ arg.CancelAt = Nil
    /\ Deref(ret).Err = NoError
    /\ Len(InvokesOf(Deref(ret).Trace)) = 2
    /\ Len(WaitsOf(Deref(ret).Trace)) = 1

\* C22: an invocation that returns an error with shouldRetry = false is the
\* last thing RetryWithCheck does: no wait and no invocation follows, and the
\* error returned is that error itself, without the label.
C22_NotRetryableStopsAtOnce ==
    ret # Nil =>
        LET r == Deref(ret)
            tr == r.Trace
        IN  \A i \in 1..Len(tr) :
              (/\ tr[i].Kind = "invoke"
               /\ arg.Fn[tr[i].Attempt].Failed
               /\ ~arg.Fn[tr[i].Attempt].ShouldRetry)
                => (i = Len(tr) /\ r.Err = ErrOfAttempt(tr[i].Attempt))

\* C22's case: the second invocation's error is not retryable, with attempts left
C22_Witness ==
    /\ ret # Nil
    /\ arg.Params.MaxAttempts = 4
    /\ arg.Fn[1] = [Failed |-> TRUE, ShouldRetry |-> TRUE]
    /\ arg.Fn[2] = [Failed |-> TRUE, ShouldRetry |-> FALSE]
    /\ arg.CancelAt = Nil
    /\ Deref(ret).Err = ErrOfAttempt(2)
    /\ Len(InvokesOf(Deref(ret).Trace)) = 2

\* C23: with max_attempts >= 1, a token never cancelled and every invocation
\* failing with a retryable error, the operation is invoked max_attempts
\* times, there are max_attempts - 1 waits, none after the last attempt, and
\* the error returned is the last attempt's error under the label.
C23_ExhaustionInvokesMaxAttempts ==
    (/\ ret # Nil
     /\ arg.Params.MaxAttempts >= 1
     /\ arg.CancelAt = Nil
     /\ \A k \in 1..arg.Params.MaxAttempts : arg.Fn[k].Failed /\ arg.Fn[k].ShouldRetry)
      => LET r == Deref(ret)
             tr == r.Trace
         IN  /\ Len(InvokesOf(tr)) = arg.Params.MaxAttempts
             /\ Len(WaitsOf(tr)) = arg.Params.MaxAttempts - 1
             /\ \A k \in 1..Len(WaitsOf(tr)) : ~WaitsOf(tr)[k].Cancelled
             /\ tr[Len(tr)].Kind = "invoke"
             /\ r.Err = <<OperationName, "failed after attempts: ">>
                          \o ErrOfAttempt(arg.Params.MaxAttempts)

\* C23's case: four attempts, all failing with a retryable error
C23_Witness ==
    /\ ret # Nil
    /\ arg.Params.MaxAttempts = 4
    /\ arg.CancelAt = Nil
    /\ \A k \in 1..4 : arg.Fn[k].Failed /\ arg.Fn[k].ShouldRetry
    /\ Len(WaitsOf(Deref(ret).Trace)) = 3
    /\ Deref(ret).Err # NoError

\* C24 as claimed: the k-th wait lasts min(initial_delay * multiplier^(k-1),
\* max_delay), and so no wait is longer than max_delay, whatever the three
\* parameters.  (A wait the token cuts short is left aside; the multiplier
\* is in halves, so both sides are taken times 2^(k-1).)
C24_WaitIsCappedGeometric ==
    ret # Nil =>
        LET waits == WaitsOf(Deref(ret).Trace)
            P == arg.Params
        IN  \A k \in 1..Len(waits) :
              ~waits[k].Cancelled =>
                /\ waits[k].Delay <= P.MaxDelay
                /\ waits[k].Delay * Pow(2, k - 1)
                     = SetMin({P.InitialDelay * Pow(P.BackoffMultiplier, k - 1),
                               P.MaxDelay * Pow(2, k - 1)})

\* C25: the token is checked before each attempt and during each wait: once
\* it is found cancelled nothing more is done (no invocation is started, the
\* wait in progress stops short of its delay), and the error returned is a
\* cancellation error that wraps the token's error.
C25_CancelledTokenStopsTheExecutor ==
    ret # Nil =>
        LET r == Deref(ret)
            tr == r.Trace
        IN  /\ \A i \in 1..Len(tr) :
                 tr[i].Kind = "invoke"
                   => (i > 1 /\ tr[i - 1].Kind = "check" /\ ~tr[i - 1].Cancelled)
            /\ \A i \in 1..Len(tr) :
                 tr[i].Cancelled
                   => /\ i = Len(tr)
                      /\ tr[i].Kind \in {"check", "wait"}
                      /\ ErrorIs(r.Err, arg.CtxErr)
                      /\ r.Err[1] = OperationName
                      /\ r.Err[2] \in {"context cancelled: ",
                                       "context cancelled during retry wait: "}
            /\ ~IsNil(arg.CancelAt) =>
                 /\ \A k \in 1..Len(InvokesOf(tr)) : 2 * k - 1 < Deref(arg.CancelAt)
                 /\ \A k \in 1..Len(WaitsOf(tr)) :
                      ~WaitsOf(tr)[k].Cancelled => 2 * k < Deref(arg.CancelAt)

\* C25's case: the token is cancelled during the wait after the second attempt
C25_Witness ==
    /\ ret # Nil
    /\ arg.Params.MaxAttempts = 4
    /\ arg.CancelAt = Ptr(4)
    /\ arg.Fn[1] = [Failed |-> TRUE, ShouldRetry |-> TRUE]
    /\ arg.Fn[2] = [Failed |-> TRUE, ShouldRetry |-> TRUE]
    /\ Len(InvokesOf(Deref(ret).Trace)) = 2
    /\ Len(WaitsOf(Deref(ret).Trace)) = 2
    /\ WaitsOf(Deref(ret).Trace)[2].Cancelled
    /\ ErrorIs(Deref(ret).Err, arg.CtxErr)

\* ---- Scorer.ScoreFlights
\* candidates: price, duration, stops and departure hour, covering every
\* row of the two tables and pairs in which one flight is better on all four
ScoreProfiles ==
    << <<700, 110, 0, 8>>, <<900, 200, 1, 6>>, <<1200, 240, 2, 5>>,
       <<1300, 300, 3, 4>>, <<1400, 330, 4, 0>>, <<1300, 300, 3, 5>>,
       <<900, 110, 0, 20>>, <<700, 200, 1, 21>>, <<1200, 110, 2, 22>>,
       <<900, 240, 3, 23>>, <<700, 110, 0, 7>>, <<1200, 200, 0, 14>> >>
Candidate(i) ==
    [MockData(Garuda)[1] EXCEPT !.ID = "GA" \o ToString(i) \o "_Garuda Indonesia",
                                !.Price = ScoreProfiles[i][1],
                                !.Duration = ScoreProfiles[i][2],
                                !.Stops = ScoreProfiles[i][3],
                                !.DepHour = ScoreProfiles[i][4]]
Candidates == {Candidate(i) : i \in 1..Len(ScoreProfiles)}

InitScore == InitOp([Flights : SeqsUpTo(Candidates, MaxFlights)])
CallScoreFlights == ApplyOpAny(ScoreFlightsOutcomes(arg.Flights))
NextScore == CallScoreFlights
SpecScore == InitScore /\ [][NextScore]_vars

\* the rank of a departure hour in the preference table (higher is better)
HourRank(h) ==
    IF h \in 8..20 THEN 4 ELSE IF h \in {6, 7, 21, 22} THEN 3
    ELSE IF h \in {5, 23} THEN 2 ELSE 1
\* flight a is strictly better than flight b on all four features
Dominates(a, b) ==
    /\ a.Price < b.Price
    /\ a.Duration < b.Duration
    /\ a.Stops < b.Stops
    /\ HourRank(a.DepHour) > HourRank(b.DepHour)

C27_SubScoresAndTotal ==
    ret # Nil =>
        LET scored == Deref(ret)
            prices == {f.Price : f \in Range(arg.Flights)}
            durs == {f.Duration : f \in Range(arg.Flights)}
        IN  \A i \in 1..Len(scored) :
              LET f == scored[i].Flight
                  b == scored[i].Breakdown
              IN  /\ 0 <= b.PriceNum /\ b.PriceNum <= b.PriceDen
                  /\ 0 <= b.DurationNum /\ b.DurationNum <= b.DurationDen
                  /\ b.StopsScore \in 0..10 /\ b.DepartureTimeScore \in 0..10
                  /\ IF SetMax(prices) = SetMin(prices) THEN b.PriceNum = b.PriceDen
                     ELSE b.PriceNum * (SetMax(prices) - SetMin(prices))
                            = b.PriceDen * ((SetMax(prices) - SetMin(prices))
                                            - (f.Price - SetMin(prices)))
                  /\ IF SetMax(durs) = SetMin(durs) THEN b.DurationNum = b.DurationDen
                     ELSE b.DurationNum * (SetMax(durs) - SetMin(durs))
                            = b.DurationDen * ((SetMax(durs) - SetMin(durs))
                                               - (f.Duration - SetMin(durs)))
                  /\ b.StopsScore = IF f.Stops = 0 THEN 10 ELSE IF f.Stops = 1 THEN 7
                                    ELSE IF f.Stops = 2 THEN 4 ELSE 2
                  /\ b.DepartureTimeScore =
                       IF f.DepHour \in 8..20 THEN 10
                       ELSE IF f.DepHour \in {6, 7, 21, 22} THEN 8
                       ELSE IF f.DepHour \in {5, 23} THEN 6 ELSE 3
                  /\ scored[i].Score * 10 =
                       100 * (Weights.Price * b.PriceNum * b.DurationDen
                              + Weights.Duration * b.DurationNum * b.PriceDen)
                       + 10 * b.PriceDen * b.DurationDen
                            * (Weights.Stops * b.StopsScore
                               + Weights.DepartureTime * b.DepartureTimeScore)

\* C27's case: three flights of different prices and durations, among them
\* one with four stops leaving at hour 0 and one with three leaving at 23
C27_Witness ==
    /\ ret # Nil
    /\ arg.Flights = <<Candidate(5), Candidate(10), Candidate(1)>>
    /\ Deref(ret)[1].Flight = Candidate(1)
    /\ Deref(ret)[1].Breakdown.PriceNum = Deref(ret)[1].Breakdown.PriceDen
    /\ Deref(ret)[3].Flight = Candidate(5)
    /\ Deref(ret)[3].Breakdown.PriceNum = 0
    /\ Deref(ret)[3].Breakdown.StopsScore = 2
    /\ Deref(ret)[3].Breakdown.DepartureTimeScore = 3

\* -------------------------------------------------------- provider adapters
\* The adapters turn the flights of a provider's payload into unified Flight
\* records.  A time is a record [Wall, Offset]: the clock reading in minutes
\* since 2025-12-15T00:00 and the offset from UTC, in minutes, of the zone the
\* reading is in.  A timestamp of a payload is such a record whose Offset is
\* Nil when the text states no offset, and whose Valid is FALSE when the text
\* is in none of the accepted layouts.

SUB == <<"S","U","B">>
Batik == <<"B","a","t","i","k"," ","A","i","r">>
AirAsia == <<"A","i","r","A","s","i","a">>
Adapters == {Garuda, Lion, Batik, AirAsia}

wibAirports ==
    { <<"C","G","K">>, <<"S","U","B">>, <<"K","N","O">>, <<"P","L","M">>,
      <<"P","D","G">>, <<"B","T","J">>, <<"P","K","U">>, <<"B","D","O">>,
      <<"S","R","G">>, <<"J","O","G">> }
witaAirports ==
    { <<"D","P","S">>, <<"U","P","G">>, <<"B","P","N">>, <<"L","O","P">>,
      <<"B","D","J">>, <<"S","O","C">>, <<"P","K","Y">>, <<"M","D","C">> }
witAirports ==
    { <<"D","J","J">>, <<"A","M","Q">>, <<"T","I","M">>, <<"S","R","R">> }

\* utils.GetTimezone
GetTimezone(airportCode) ==
    IF airportCode \in wibAirports THEN "Asia/Jakarta"
    ELSE IF airportCode \in witaAirports THEN "Asia/Makassar"
    ELSE IF airportCode \in witAirports THEN "Asia/Jayapura"
    ELSE "Asia/Jakarta"

\* time.LoadLocation as the adapters use it: the offset from UTC of the named
\* zone in minutes, UTC when the name is empty or unknown
LoadLocation(name) ==
    IF name = "Asia/Jakarta" THEN [Offset |-> 420, Err |-> NoError]
    ELSE IF name = "Asia/Makassar" THEN [Offset |-> 480, Err |-> NoError]
    ELSE IF name = "Asia/Jayapura" THEN [Offset |-> 540, Err |-> NoError]
    ELSE IF name = "" \/ name = "UTC" THEN [Offset |-> 0, Err |-> NoError]
    ELSE [Offset |-> 0, Err |-> <<"unknown time zone">>]
LocationOrUTC(name) ==
    IF LoadLocation(name).Err # NoError THEN 0 ELSE LoadLocation(name).Offset

\* time.Date(t.Year(), ..., t.Nanosecond(), loc): the clock reading of t taken
\* as a reading of the zone loc
TimeDate(t, loc) == [Wall |-> t.Wall, Offset |-> loc]

\* Time.Unix, in minutes
Unix(t) == t.Wall - t.Offset

\* Time.Format("2006-01-02") and Time.Hour
FormatDate(t) == "2025-12-" \o ToString(15 + (t.Wall \div 1440))
TimeHour(t) == (t.Wall % 1440) \div 60

\* utils.ParseTime: a text with an offset gives the reading in that offset; a
\* text without one gives the reading in UTC, or in the named zone when a
\* zone is passed and loads
ParseTime(timeStr, timezone) ==
    IF ~timeStr.Valid
    THEN [Time |-> [Wall |-> 0, Offset |-> 0], Err |-> <<"unable to parse time">>]
    ELSE IF ~IsNil(timeStr.Offset)
    THEN [Time |-> [Wall |-> timeStr.Wall, Offset |-> Deref(timeStr.Offset)],
          Err |-> NoError]
    ELSE IF timezone # "" /\ LoadLocation(timezone).Err = NoError
    THEN [Time |-> TimeDate([Wall |-> timeStr.Wall, Offset |-> 0],
                            LoadLocation(timezone).Offset),
          Err |-> NoError]
    ELSE [Time |-> [Wall |-> timeStr.Wall, Offset |-> 0], Err |-> NoError]
ParseFlexibleTime(timeStr) == ParseTime(timeStr, "")
ParseTimeWithTimezone(timeStr, timezone) == ParseTime(timeStr, timezone)

\* the value of a decimal digit
DigitValue(c) ==
    CASE c = "0" -> 0 [] c = "1" -> 1 [] c = "2" -> 2 [] c = "3" -> 3
      [] c = "4" -> 4 [] c = "5" -> 5 [] c = "6" -> 6 [] c = "7" -> 7
      [] c = "8" -> 8 [] c = "9" -> 9
IsDigit(c) == c \in {"0", "1", "2", "3", "4", "5", "6", "7", "8", "9"}

RECURSIVE SkipSpace(_)
SkipSpace(input) ==
    IF input # <<>> /\ Head(input) = " " THEN SkipSpace(Tail(input)) ELSE input

\* the digits at the head of the input, as [Value, Rest, Count]
RECURSIVE ScanDigits(_, _, _)
ScanDigits(input, value, count) ==
    IF input # <<>> /\ IsDigit(Head(input))
    THEN ScanDigits(Tail(input), 10 * value + DigitValue(Head(input)), count + 1)
    ELSE [Value |-> value, Rest |-> input, Count |-> count]

\* fmt.Sscanf for a format of %d verbs, spaces and literal characters: the
\* values stored, in order, up to the point where the input stops matching.
\* Each %d stores its value as soon as it is scanned.
RECURSIVE Sscanf(_, _, _)
Sscanf(input, format, stored) ==
    IF format = <<>> THEN stored
    ELSE IF Head(format) = "%d"
    THEN LET scan == ScanDigits(SkipSpace(input), 0, 0)
         IN  IF scan.Count = 0 THEN stored
             ELSE Sscanf(scan.Rest, Tail(format), Append(stored, scan.Value))
    ELSE IF Head(format) = " "
    THEN Sscanf(SkipSpace(input), Tail(format), stored)
    ELSE IF input # <<>> /\ Head(input) = Head(format)
    THEN Sscanf(Tail(input), Tail(format), stored)
    ELSE stored

\* the value of the k-th argument after a Sscanf call that stored the given
\* values: the stored one, or the value it had before
ArgAfter(stored, k, before) == IF Len(stored) >= k THEN stored[k] ELSE before

\* utils.ParseTravelTime
ParseTravelTime(travelTime) ==
    LET first == Sscanf(travelTime, <<"%d", "h", " ", "%d", "m">>, <<>>)
        hours1 == ArgAfter(first, 1, 0)
        minutes1 == ArgAfter(first, 2, 0)
        second == IF hours1 = 0 /\ minutes1 = 0
                  THEN Sscanf(travelTime, <<"%d", "h">>, <<>>) ELSE <<>>
        hours2 == ArgAfter(second, 1, hours1)
        third == IF hours2 = 0 /\ minutes1 = 0
                 THEN Sscanf(travelTime, <<"%d", "m">>, <<>>) ELSE <<>>
        minutes3 == ArgAfter(third, 1, minutes1)
    IN  hours2 * 60 + minutes3

\* int(af.DurationHours * 60) for hours given in hundredths: the float64
\* product of 2.05 and 60 is 122.99999999999999, the other products drawn
\* here are exact
HoursToMinutes(hundredths) ==
    IF hundredths = 205 THEN 122 ELSE (hundredths * 60) \div 100

\* the provider name as one string
RECURSIVE JoinChars(_)
JoinChars(chars) == IF chars = <<>> THEN "" ELSE Head(chars) \o JoinChars(Tail(chars))

\* the unified record the adapters build from the converted parts
UnifiedFlight(prov, number, rf, departureTime, arrivalTime, durationMinutes) ==
    Flight(number \o "_" \o JoinChars(prov), prov, rf.From, rf.To,
           FormatDate(departureTime), rf.Price, durationMinutes, rf.Stops,
           TimeHour(departureTime), TimeHour(arrivalTime),
           Unix(departureTime), Unix(arrivalTime))

NoFlight == Flight("", <<>>, <<>>, <<>>, "", 0, 0, 0, 0, 0, 0, 0)

\* the conversion shared by the adapters that take the zone from the airport
ConvertByAirport(prov, rf, durationMinutes) ==
    LET dep == ParseFlexibleTime(rf.Departure)
        arr == ParseFlexibleTime(rf.Arrival)
    IN  IF dep.Err # NoError
        THEN [Flight |-> NoFlight, Err |-> <<"invalid departure time">> \o dep.Err]
        ELSE IF arr.Err # NoError
        THEN [Flight |-> NoFlight, Err |-> <<"invalid arrival time">> \o arr.Err]
        ELSE [Flight |-> UnifiedFlight(prov, rf.FlightID, rf,
                           TimeDate(dep.Time, LocationOrUTC(GetTimezone(rf.From))),
                           TimeDate(arr.Time, LocationOrUTC(GetTimezone(rf.To))),
                           durationMinutes),
              Err |-> NoError]

\* GarudaProvider.convertToFlight
GarudaConvertToFlight(gf) == ConvertByAirport(Garuda, gf, gf.Stated)

\* LionAirProvider.convertToFlight: the zones are the ones the payload names
LionConvertToFlight(lf) ==
    LET dep == ParseTimeWithTimezone(lf.Departure, lf.DepartureTimezone)
        arr == ParseTimeWithTimezone(lf.Arrival, lf.ArrivalTimezone)
    IN  IF dep.Err # NoError
        THEN [Flight |-> NoFlight, Err |-> <<"invalid departure time">> \o dep.Err]
        ELSE IF arr.Err # NoError
        THEN [Flight |-> NoFlight, Err |-> <<"invalid arrival time">> \o arr.Err]
        ELSE [Flight |-> UnifiedFlight(Lion, lf.FlightID, lf,
                           TimeDate(dep.Time, LocationOrUTC(lf.DepartureTimezone)),
                           TimeDate(arr.Time, LocationOrUTC(lf.ArrivalTimezone)),
                           lf.Stated),
              Err |-> NoError]

\* BatikProvider.convertToFlight
BatikConvertToFlight(bf) == ConvertByAirport(Batik, bf, ParseTravelTime(bf.Stated))

\* AirAsiaProvider.convertToFlight
AirAsiaConvertToFlight(af) == ConvertByAirport(AirAsia, af, HoursToMinutes(af.Stated))

convertToFlight(prov, rf) ==
    IF prov = Garuda THEN GarudaConvertToFlight(rf)
    ELSE IF prov = Lion THEN LionConvertToFlight(rf)
    ELSE IF prov = Batik THEN BatikConvertToFlight(rf)
    ELSE AirAsiaConvertToFlight(rf)

\* the loop of an adapter's Search over the flights of the loaded response:
\* the flights of the requested route that convert and depart on the
\* requested date, in payload order
RECURSIVE ConvertedFlights(_, _, _)
ConvertedFlights(prov, payload, req) ==
    IF payload = <<>> THEN <<>>
    ELSE LET rf == Head(payload)
             rest == ConvertedFlights(prov, Tail(payload), req)
         IN  IF rf.From # req.Origin \/ rf.To # req.Destination THEN rest
             ELSE LET c == convertToFlight(prov, rf)
                  IN  IF c.Err # NoError THEN rest
                      ELSE IF c.Flight.Date # req.DepartureDate THEN rest
                      ELSE <<c.Flight>> \o rest

SearchPayload(prov, payload, req) ==
    LET flights == ConvertedFlights(prov, payload, req)
    IN  IF Len(flights) = 0
        THEN [Flights |-> <<>>, Err |-> <<ErrNoFlightsFound>>]
        ELSE [Flights |-> flights, Err |-> NoError]


\* ------------------------------------------- specification: adapter search
\* One adapter converts a payload of up to MaxPayload flights for a request,
\* and the aggregator collects its result.

MaxPayload == 2     \* the longest payload

TimeText(wall, offset) == [Wall |-> wall, Offset |-> offset, Valid |-> TRUE]
InvalidTimeText == [Wall |-> 0, Offset |-> Nil, Valid |-> FALSE]

\* the schedules of the payload flights: route, the two timestamps and the
\* zone names a Lion Air payload carries with them.  Each describes an
\* arrival that is after the departure.
Schedules ==
    { \* 10:00 WIB to 11:55 WITA, each text with the offset of its airport
      [From |-> SUB, To |-> DPS,
       Departure |-> TimeText(600, Ptr(420)), Arrival |-> TimeText(715, Ptr(480)),
       DepartureTimezone |-> "Asia/Jakarta", ArrivalTimezone |-> "Asia/Makassar"],
      \* the same flight with texts that state no offset
      [From |-> SUB, To |-> DPS,
       Departure |-> TimeText(600, Nil), Arrival |-> TimeText(715, Nil),
       DepartureTimezone |-> "Asia/Jakarta", ArrivalTimezone |-> "Asia/Makassar"],
      \* the same flight with both texts in +07:00
      [From |-> SUB, To |-> DPS,
       Departure |-> TimeText(600, Ptr(420)), Arrival |-> TimeText(655, Ptr(420)),
       DepartureTimezone |-> "Asia/Jakarta", ArrivalTimezone |-> "Asia/Makassar"],
      \* 10:00 WIB to 12:50 WITA with both texts in UTC
      [From |-> CGK, To |-> DPS,
       Departure |-> TimeText(180, Ptr(0)), Arrival |-> TimeText(290, Ptr(0)),
       DepartureTimezone |-> "Asia/Jakarta", ArrivalTimezone |-> "Asia/Makassar"],
      \* a flight a week later
      [From |-> SUB, To |-> DPS,
       Departure |-> TimeText(10680, Ptr(420)), Arrival |-> TimeText(10795, Ptr(480)),
       DepartureTimezone |-> "Asia/Jakarta", ArrivalTimezone |-> "Asia/Makassar"],
      \* a departure text in no accepted layout
      [From |-> SUB, To |-> DPS,
       Departure |-> InvalidTimeText, Arrival |-> TimeText(715, Ptr(480)),
       DepartureTimezone |-> "Asia/Jakarta", ArrivalTimezone |-> "Asia/Makassar"],
      \* texts that state no offset, with zone names that do not load
      [From |-> SUB, To |-> DPS,
       Departure |-> TimeText(600, Nil), Arrival |-> TimeText(715, Nil),
       DepartureTimezone |-> "WIB", ArrivalTimezone |-> "WITA"] }

\* the durations a payload states, in the provider's own form: minutes
\* (Garuda, Lion Air), hundredths of an hour (AirAsia), travel-time text
\* "1h 45m", "2h", "45m", "0h 55m" (Batik)
StatedDurations(prov) ==
    IF prov = Garuda THEN {55, 110}
    ELSE IF prov = Lion THEN {55, 110}
    ELSE IF prov = AirAsia THEN {100, 175, 205}
    ELSE { <<"1", "h", " ", "4", "5", "m">>, <<"2", "h">>, <<"4", "5", "m">>,
           <<"0", "h", " ", "5", "5", "m">> }

FlightNumbers(prov) ==
    IF prov = Garuda THEN {"GA400", "GA402"}
    ELSE IF prov = Lion THEN {"JT740", "JT742"}
    ELSE IF prov = AirAsia THEN {"QZ7510", "QZ7512"}
    ELSE {"ID6510", "ID6512"}

\* the fares a payload lists a flight at
Fares == {700, 1200}

\* the flights a payload of the provider can hold
PayloadFlights(prov) ==
    { [FlightID |-> n, From |-> s.From, To |-> s.To,
       Departure |-> s.Departure, Arrival |-> s.Arrival,
       DepartureTimezone |-> s.DepartureTimezone,
       ArrivalTimezone |-> s.ArrivalTimezone,
       Stated |-> d, Price |-> p, Stops |-> 0]
      : n \in FlightNumbers(prov), s \in Schedules, d \in StatedDurations(prov),
        p \in Fares }

AdapterRequest == [BaseRequest EXCEPT !.Origin = SUB, !.Destination = DPS]

AdapterInputs ==
    UNION { [Provider : {prov},
             Payload : SeqsUpTo(PayloadFlights(prov), MaxPayload),
             Req : {AdapterRequest, BaseRequest}] : prov \in Adapters }

InitAdapter == InitOp(AdapterInputs)

\* the adapter's search over the payload, and the flights the aggregator
\* collects from its result
CallSearchPayload ==
    ApplyOp(LET result == SearchPayload(arg.Provider, arg.Payload, arg.Req)
            IN  [Flights |-> result.Flights, Err |-> result.Err,
                 Aggregated |-> collectResults(<<[Provider |-> arg.Provider,
                                                  Flights |-> result.Flights,
                                                  Error |-> result.Err]>>)])

NextAdapter == CallSearchPayload
SpecAdapter == InitAdapter /\ [][NextAdapter]_vars


\* the flights the aggregator collected from the adapter's result
CollectedFlights == Deref(ret).Aggregated.Flights

\* C28 as claimed: no two flights in the flights list of one response have
\* the same id (the provider's flight number joined with the provider name).
C28_FlightIdsUniqueInAResponse ==
    ret # Nil =>
        \A i, j \in 1..Len(CollectedFlights) :
            i # j => CollectedFlights[i].ID # CollectedFlights[j].ID

\* C29 as claimed: every flight an adapter emits has an arrival timestamp
\* that is not before its departure timestamp, also when the two airports
\* are in different zones and the source timestamps state an offset other
\* than the airport's.
C29_ArrivalNotBeforeDeparture ==
    ret # Nil =>
        \A i \in 1..Len(Deref(ret).Flights) :
            Deref(ret).Flights[i].Arr >= Deref(ret).Flights[i].Dep

\* the duration a payload states, read as the specification reads it: the
\* minutes as they are, hours times 60, and H*60 + M for the texts "Hh Mm",
\* "Hh" and "Mm"
StatedMinutes(prov, stated) ==
    IF prov = Garuda \/ prov = Lion THEN stated
    ELSE IF prov = AirAsia THEN (stated * 60) \div 100
    ELSE IF stated = <<"1", "h", " ", "4", "5", "m">> THEN 105
    ELSE IF stated = <<"2", "h">> THEN 120
    ELSE IF stated = <<"4", "5", "m">> THEN 45
    ELSE 55

\* the payload flights that are emitted: those of the requested route whose
\* timestamps are readable and whose departure reading is on the requested
\* date
IsEmitted(rf) ==
    /\ rf.From = arg.Req.Origin /\ rf.To = arg.Req.Destination
    /\ rf.Departure.Valid /\ rf.Arrival.Valid
    /\ rf.Departure.Wall \div 1440 = 0
EmittedOf(payload) == SelectSeq(payload, IsEmitted)

\* C30 as claimed: the total minutes of every emitted flight are the
\* duration the provider stated (minutes verbatim for Garuda and Lion Air,
\* hours times 60 for AirAsia, H*60 + M for Batik's "Hh Mm", "Hh" and "Mm"),
\* never a value derived from the timestamps.
C30_DurationIsTheStatedOne ==
    ret # Nil =>
        LET flights == Deref(ret).Flights
            emitted == EmittedOf(arg.Payload)
        IN  /\ Len(flights) = Len(emitted)
            /\ \A i \in 1..Len(flights) :
                 flights[i].Duration = StatedMinutes(arg.Provider, emitted[i].Stated)


\* the offset from UTC, in minutes, the airport table gives a code: +7 for
\* the WIB airports, +8 for WITA, +9 for WIT, +7 for any other code
TableOffset(airportCode) ==
    IF airportCode \in witaAirports THEN 480
    ELSE IF airportCode \in witAirports THEN 540
    ELSE 420

\* C31 as claimed: a flight whose source datetime states no offset is
\* emitted with the same wall-clock fields and the offset of its airport's
\* zone from the airport table, and its timestamp is the epoch time of that
\* zoned datetime.
C31_NaiveTimeGetsTheAirportOffset ==
    ret # Nil =>
        LET flights == Deref(ret).Flights
            emitted == EmittedOf(arg.Payload)
        IN  \A i \in 1..Len(flights) :
              /\ IsNil(emitted[i].Departure.Offset) =>
                   /\ flights[i].DepHour = (emitted[i].Departure.Wall % 1440) \div 60
                   /\ flights[i].Dep = emitted[i].Departure.Wall
                                         - TableOffset(emitted[i].From)
              /\ IsNil(emitted[i].Arrival.Offset) =>
                   /\ flights[i].ArrHour = (emitted[i].Arrival.Wall % 1440) \div 60
                   /\ flights[i].Arr = emitted[i].Arrival.Wall
                                         - TableOffset(emitted[i].To)


\* ------------------------------------- specification: fan-out and fan-in
\* One SearchAll call, goroutine by goroutine: the caller launches a task per
\* selected provider, starts the goroutine that closes the channel, and
\* collects from the channel; the context becomes done at any moment.  run
\* holds the position of every goroutine and the objects they share.

\* a task whose Search is still in its simulated delay when the context
\* becomes done, and a task that finds the context done before it starts
SlowPlan == [k \in 1..MaxAttempts |-> IF k = 1 THEN "timeout" ELSE "ctxdone"]
CancelledPlan == [k \in 1..MaxAttempts |-> "ctxdone"]

\* make(chan ProviderResult, len(providersToQuery))
ChanCapOfOne(selected) == 1
ChanCap(selected) == Len(selected)

\* wg.Wait() returns
WaitReturnsAtOnce(wg) == TRUE
WaitReturns(wg) == wg = 0

FanInputs ==
    [Req : {BaseRequest, NoRoute,
            [BaseRequest EXCEPT !.Filters = AirlinesFilter(<<Garuda>>)]},
     Plan : [Range(Providers) -> Plans \cup {SlowPlan}]]

FanStart(in) ==
    LET selected == providersToQuery(in.Req)
    IN  [Selected |-> selected,
         Cap |-> ChanCap(selected),
         Main |-> "launch",
         Launched |-> 0,
         Task |-> [i \in 1..Len(selected) |-> "unborn"],
         Out |-> [i \in 1..Len(selected) |-> Nil],
         Closer |-> "unborn",
         Wg |-> 0,
         Buf |-> <<>>,
         Closed |-> FALSE,
         Closes |-> 0,
         Panic |-> FALSE,
         Sent |-> 0,
         Received |-> 0,
         Aggregated |-> EmptyAggregated,
         CtxDone |-> FALSE]

InitFan ==
    /\ CacheInit
    /\ heap = <<>>
    /\ metaHeap = <<>>
    /\ calls = <<>>
    /\ nOps = 0
    /\ arg \in FanInputs
    /\ ret = Nil
    /\ run = FanStart(arg)

FanFrame == UNCHANGED <<now, data, stats, lastSet, lastGet, sweptSince,
                        heap, metaHeap, calls, nOps, arg>>

\* wg.Add(1); go func(p) {...}(provider)
FanLaunch ==
    /\ run.Main = "launch"
    /\ run.Launched < Len(run.Selected)
    /\ run' = [run EXCEPT !.Wg = @ + 1,
                          !.Launched = @ + 1,
                          !.Task[run.Launched + 1] = "query"]
    /\ ret' = ret
    /\ FanFrame

\* go func() { wg.Wait(); close(results) }()
FanStartCloser ==
    /\ run.Main = "launch"
    /\ run.Launched = Len(run.Selected)
    /\ run' = [run EXCEPT !.Closer = "wait", !.Main = "collect"]
    /\ ret' = ret
    /\ FanFrame

\* queryProvider up to its send: the retry loop around Search runs to its
\* end.  A Search that outlasts the deadline returns when the context is
\* done; a loop that starts with the context done does not call Search, and
\* a wait before the last attempt ends when the context is done.
FanQuery(i) ==
    /\ run.Task[i] = "query"
    /\ LET prov == run.Selected[i]
           plan == IF run.CtxDone
                   THEN IF arg.Plan[prov] = SlowPlan THEN {SlowPlan, CancelledPlan}
                        ELSE {arg.Plan[prov], CancelledPlan,
                              [arg.Plan[prov] EXCEPT ![MaxAttempts] = "waitdone"]}
                   ELSE IF arg.Plan[prov] = SlowPlan THEN {}
                        ELSE {arg.Plan[prov]}
       IN  \E p \in plan :
             run' = [run EXCEPT !.Task[i] = "send",
                                !.Out[i] = Ptr(queryProvider(prov, arg.Req, p))]
    /\ ret' = ret
    /\ FanFrame

\* results <- ProviderResult{...}: blocks while the buffer is full, panics
\* on a closed channel
FanSend(i) ==
    /\ run.Task[i] = "send"
    /\ run.Closed \/ Len(run.Buf) < run.Cap
    /\ run' = IF run.Closed
              THEN [run EXCEPT !.Panic = TRUE, !.Task[i] = "exit"]
              ELSE [run EXCEPT !.Buf = Append(@, Deref(run.Out[i])),
                               !.Sent = @ + 1,
                               !.Task[i] = "done"]
    /\ ret' = ret
    /\ FanFrame

\* defer wg.Done()
FanDone(i) ==
    /\ run.Task[i] = "done"
    /\ run' = [run EXCEPT !.Wg = @ - 1, !.Task[i] = "exit"]
    /\ ret' = ret
    /\ FanFrame

FanWait ==
    /\ run.Closer = "wait"
    /\ WaitReturns(run.Wg)
    /\ run' = [run EXCEPT !.Closer = "close"]
    /\ ret' = ret
    /\ FanFrame

FanClose ==
    /\ run.Closer = "close"
    /\ run' = [run EXCEPT !.Closed = TRUE, !.Closes = @ + 1, !.Closer = "exit"]
    /\ ret' = ret
    /\ FanFrame

\* one round of collectResults' loop over the channel
FanReceive ==
    /\ run.Main = "collect"
    /\ run.Buf # <<>>
    /\ run' = [run EXCEPT !.Buf = Tail(@),
                          !.Received = @ + 1,
                          !.Aggregated = collectFrom(@, <<Head(run.Buf)>>)]
    /\ ret' = ret
    /\ FanFrame

\* the loop ends on the closed and drained channel; SearchAll returns, and
\* its deferred cancel() runs
FanReturn ==
    /\ run.Main = "collect"
    /\ run.Buf = <<>>
    /\ run.Closed
    /\ run' = [run EXCEPT !.Main = "returned", !.CtxDone = TRUE]
    /\ ret' = Ptr([Aggregated |-> run.Aggregated,
                   Error |-> IF Len(run.Aggregated.Flights) = 0
                             THEN ErrNoFlightsAnyProvider ELSE NoError])
    /\ FanFrame

\* the aggregator's timeout passes or the inbound context is cancelled
FanCtxDone ==
    /\ ~run.CtxDone
    /\ run.Main # "returned"
    /\ run' = [run EXCEPT !.CtxDone = TRUE]
    /\ ret' = ret
    /\ FanFrame

NextFan ==
    \/ FanLaunch
    \/ FanStartCloser
    \/ \E i \in 1..Len(Providers) : i <= Len(run.Selected) /\ FanQuery(i)
    \/ \E i \in 1..Len(Providers) : i <= Len(run.Selected) /\ FanSend(i)
    \/ \E i \in 1..Len(Providers) : i <= Len(run.Selected) /\ FanDone(i)
    \/ FanWait
    \/ FanClose
    \/ FanReceive
    \/ FanReturn
    \/ FanCtxDone

SpecFan == InitFan /\ [][NextFan]_vars

\* the goroutines run on (each step that stays possible is taken in the
\* end); nothing obliges the context to become done
FanFairness ==
    /\ WF_vars(FanLaunch) /\ WF_vars(FanStartCloser)
    /\ \A i \in 1..Len(Providers) :
         /\ WF_vars(i <= Len(run.Selected) /\ FanQuery(i))
         /\ WF_vars(i <= Len(run.Selected) /\ FanSend(i))
         /\ WF_vars(i <= Len(run.Selected) /\ FanDone(i))
    /\ WF_vars(FanWait) /\ WF_vars(FanClose)
    /\ WF_vars(FanReceive) /\ WF_vars(FanReturn)

SpecFanLive == SpecFan /\ FanFairness


\* the sum of the result counts of an aggregation
RECURSIVE CountSum(_, _)
CountSum(counts, names) ==
    IF names = {} THEN 0
    ELSE LET n == CHOOSE x \in names : TRUE
         IN  counts[n] + CountSum(counts, names \ {n})

\* C32: in every interleaving of the provider tasks SearchAll has collected
\* exactly one outcome per selected provider when it returns; every selected
\* provider is then in exactly one of the result counts and the errors, and
\* the result counts add up to the length of the combined flight list.
C32_OneOutcomePerSelectedProvider ==
    /\ run # <<>> => run.Received <= run.Sent /\ run.Sent <= run.Launched
    /\ (run # <<>> /\ ret # Nil) =>
         LET a == Deref(ret).Aggregated
             selected == Range(run.Selected)
         IN  /\ run.Main = "returned"
             /\ run.Sent = Len(run.Selected)
             /\ run.Received = Len(run.Selected)
             /\ \A i \in 1..Len(run.Selected) : run.Out[i] # Nil
             /\ DOMAIN a.ProviderResults \cup DOMAIN a.ProviderErrors = selected
             /\ DOMAIN a.ProviderResults \cap DOMAIN a.ProviderErrors = {}
             /\ \A i \in 1..Len(run.Selected) :
                  IF Deref(run.Out[i]).Error = NoError
                  THEN /\ run.Selected[i] \in DOMAIN a.ProviderResults
                       /\ a.ProviderResults[run.Selected[i]]
                            = Len(Deref(run.Out[i]).Flights)
                  ELSE run.Selected[i] \in DOMAIN a.ProviderErrors
             /\ CountSum(a.ProviderResults, DOMAIN a.ProviderResults) = Len(a.Flights)

\* C32's case: two tasks, the second one's outcome collected first, one of
\* them failed and the other found flights
C32_Witness ==
    /\ run # <<>> /\ ret # Nil
    /\ Len(run.Selected) = 2
    /\ Garuda \in DOMAIN Deref(ret).Aggregated.ProviderErrors
    /\ Lion \in DOMAIN Deref(ret).Aggregated.ProviderResults
    /\ Len(Deref(ret).Aggregated.Flights) = 1

\* what C33 states of every state of a call
FanSafe ==
    run # <<>> =>
        /\ \A i \in 1..Len(run.Selected) :
             run.Task[i] = "send" => ~run.Closed /\ Len(run.Buf) < run.Cap
        /\ ~run.Panic
        /\ run.Closes <= 1
        /\ run.Closed => /\ run.Closes = 1
                         /\ run.Sent = Len(run.Selected)
                         /\ \A i \in 1..Len(run.Selected) : run.Task[i] = "exit"
        /\ run.Main = "returned" =>
             /\ run.Closer = "exit"
             /\ \A i \in 1..Len(run.Selected) : run.Task[i] = "exit"

\* C33: no provider task ever blocks on its send (the channel holds one
\* outcome per selected provider), the channel is closed once, after every
\* task has sent, and nothing is sent after that; no goroutine is left when
\* SearchAll returns; and once the context is done (timeout or inbound
\* cancellation, whichever is first) SearchAll returns in the end, every
\* Search returning when its context is done.
C33_NoDeadlockNoLeak ==
    /\ []FanSafe
    /\ (run # <<>> /\ run.CtxDone) ~> (run.Main = "returned")

\* C33's case: a call with a task whose Search outlasts the deadline has
\* returned, the channel closed
C33_Witness ==
    /\ run # <<>> /\ ret # Nil
    /\ Len(run.Selected) = 2
    /\ arg.Plan[Garuda] = SlowPlan
    /\ arg.Plan[Lion] = SlowPlan
    /\ run.Closes = 1
    /\ run.Main = "returned"


\* the calls that return in the step taken
Returning == {i \in 1..Len(calls') : calls'[i].pc = "done"
                                      /\ (i > Len(calls) \/ calls[i].pc # "done")}

\* C34: Search writes to the cache only on a miss followed by a successful
\* compute, then exactly once and under the outbound request's key; a Search
\* that returns an error (validation failure, no flights from any provider)
\* and a Search served from the cache leave the cache entries as they were.
C34_CacheWrittenOnlyAfterASuccessfulMiss ==
    [][/\ lastSet' # lastSet =>
            \E i \in Returning :
                LET key == GenerateKey(calls'[i].Req)
                IN  /\ calls'[i].Err = NoError
                    /\ calls'[i].Agg # Nil
                    /\ calls'[i].Sets = 1
                    /\ key \in DOMAIN data'
                    /\ data'[key].Data = calls'[i].Resp
                    /\ \A k \in DOMAIN lastSet' \ {key} :
                         k \in DOMAIN lastSet /\ lastSet'[k] = lastSet[k]
                    /\ \A k \in DOMAIN data' \ {key} :
                         k \in DOMAIN data /\ data'[k] = data[k]
       /\ \A i \in Returning :
            IF calls'[i].Err = NoError /\ calls'[i].Agg # Nil
            THEN calls'[i].Sets = 1 /\ lastSet' # lastSet
            ELSE calls'[i].Sets = 0 /\ data' = data /\ lastSet' = lastSet
       /\ \A i \in 1..Len(calls') :
            i \notin Returning =>
              calls'[i].Sets = 0 \/ (i <= Len(calls) /\ calls[i].Sets = calls'[i].Sets)]_vars

\* C34's case: a call that missed, computed and stored its response, then a
\* call for another request that found no flights and returned its error
C34_Witness ==
    /\ Len(calls) = 2
    /\ calls[1].pc = "done" /\ calls[1].Err = NoError /\ calls[1].Sets = 1
    /\ calls[2].pc = "done" /\ calls[2].Err # NoError /\ calls[2].Agg # Nil
    /\ DOMAIN data = {GenerateKey(calls[1].Req)}


\* ------------------------------- specification: concurrent cache operations
\* Up to MaxGoroutines goroutines each make one Get or one Set on the same
\* cache.  Set runs under the writer lock, so it is one step.  Get runs
\* under the reader lock, which any number of goroutines hold together: its
\* increments of the counters are a load and a store each, and the steps of
\* several Gets interleave.  run holds each goroutine's position, the value
\* it loaded, and the state of the lock.

MaxGoroutines == 3    \* goroutines in one behaviour

RaceKey == GenerateKey(BaseRequest)

\* the cache the goroutines find: empty, holding a live entry, or holding an
\* entry that has expired and is not yet swept
RaceCaches ==
    { EmptyMap,
      MapPut(EmptyMap, RaceKey, [Data |-> 1, ExpiresAt |-> 1]),
      MapPut(EmptyMap, RaceKey, [Data |-> 1, ExpiresAt |-> -1]) }

RaceOps == UNION {[1..n -> {"get", "set"}] : n \in 2..MaxGoroutines}

InitRace ==
    /\ now = 0
    /\ data \in RaceCaches
    /\ stats = [ZeroStats EXCEPT !.CurrentSize = Cardinality(DOMAIN data)]
    /\ lastSet = EmptyMap
    /\ lastGet = NoGet
    /\ sweptSince = {}
    /\ heap = <<>>
    /\ metaHeap = <<>>
    /\ calls = <<>>
    /\ nOps = 0
    /\ arg \in [Ops : RaceOps]
    /\ ret = Nil
    /\ run = [G |-> [i \in 1..Len(arg.Ops) |-> [pc |-> "start", Reg |-> 0,
                                                 Todo |-> <<>>, Ok |-> FALSE]],
              Readers |-> 0,
              Writer |-> FALSE]

RaceFrame == UNCHANGED <<now, lastSet, lastGet, sweptSince, heap, metaHeap,
                         calls, nOps, arg, ret>>

\* Cache.Set: c.mu.Lock(), the body, c.mu.Unlock()
RaceSet(i) ==
    /\ arg.Ops[i] = "set"
    /\ run.G[i].pc = "start"
    /\ ~run.Writer /\ run.Readers = 0
    /\ LET r == CacheSet(data, stats, RaceKey, 2, now)
       IN  data' = r.data /\ stats' = r.stats
    /\ run' = [run EXCEPT !.G[i].pc = "done"]
    /\ RaceFrame

\* Cache.Get: c.mu.RLock(); the first counter to increment is TotalRequests
RaceRLock(i) ==
    /\ arg.Ops[i] = "get"
    /\ run.G[i].pc = "start"
    /\ ~run.Writer
    /\ run' = [run EXCEPT !.Readers = @ + 1,
                          !.G[i].pc = "load",
                          !.G[i].Todo = <<"TotalRequests">>]
    /\ UNCHANGED <<data, stats>>
    /\ RaceFrame

\* counter++, first half: the counter is read
RaceLoad(i) ==
    /\ run.G[i].pc = "load"
    /\ run' = [run EXCEPT !.G[i].Reg = stats[Head(run.G[i].Todo)],
                          !.G[i].pc = "store"]
    /\ UNCHANGED <<data, stats>>
    /\ RaceFrame

\* counter++, second half: the value read plus one is written
RaceStore(i) ==
    /\ run.G[i].pc = "store"
    /\ stats' = [stats EXCEPT ![Head(run.G[i].Todo)] = run.G[i].Reg + 1]
    /\ run' = [run EXCEPT !.G[i].Todo = Tail(@),
                          !.G[i].pc = IF Tail(run.G[i].Todo) # <<>> THEN "load"
                                      ELSE IF run.G[i].Todo = <<"TotalRequests">>
                                      THEN "lookup" ELSE "unlock"]
    /\ UNCHANGED data
    /\ RaceFrame

\* entry, exists := c.data[key] and the expiry test: which counters follow
RaceLookup(i) ==
    /\ run.G[i].pc = "lookup"
    /\ run' = [run EXCEPT
                 !.G[i].pc = "load",
                 !.G[i].Ok = RaceKey \in DOMAIN data /\ ~IsExpired(data[RaceKey], now),
                 !.G[i].Todo = IF RaceKey \notin DOMAIN data THEN <<"Misses">>
                               ELSE IF IsExpired(data[RaceKey], now)
                               THEN <<"Misses", "Expirations">>
                               ELSE <<"Hits">>]
    /\ UNCHANGED <<data, stats>>
    /\ RaceFrame

\* the deferred c.mu.RUnlock()
RaceRUnlock(i) ==
    /\ run.G[i].pc = "unlock"
    /\ run' = [run EXCEPT !.Readers = @ - 1, !.G[i].pc = "done"]
    /\ UNCHANGED <<data, stats>>
    /\ RaceFrame

NextRace ==
    \E i \in 1..MaxGoroutines :
        /\ i <= Len(arg.Ops)
        /\ \/ RaceSet(i)
           \/ RaceRLock(i)
           \/ RaceLoad(i)
           \/ RaceStore(i)
           \/ RaceLookup(i)
           \/ RaceRUnlock(i)

SpecRace == InitRace /\ [][NextRace]_vars

\* every goroutine has finished its call
RaceOver == \A i \in 1..Len(arg.Ops) : run.G[i].pc = "done"
GetsMade == Cardinality({i \in 1..Len(arg.Ops) : arg.Ops[i] = "get"})

\* C35 as claimed: the statistics are updated atomically: after any
\* interleaving of concurrent Get calls, with or without concurrent Set
\* calls, total requests is the number of Get calls made and hits + misses is
\* total requests; no counter update is lost.
C35_NoStatisticsUpdateIsLost ==
    (run # <<>> /\ arg # <<>> /\ RaceOver) =>
        /\ stats.TotalRequests = GetsMade
        /\ stats.Hits + stats.Misses = stats.TotalRequests


\* C36: when sort_by is empty the sorter is not invoked and scoring does not
\* reorder the list: the flights of the response are the flights that
\* passed the filter, in the order in which the aggregator collected them.
C36_NoSortKeyKeepsAggregatorOrder ==
    (ret # Nil /\ arg.SortBy = "") =>
        LET IsKept(f) == Passes(f, arg.Filters)
        IN  /\ ~Deref(ret).SorterCalled
            /\ Deref(ret).Flights = SelectSeq(arg.Flights, IsKept)

\* C36's case: three collected flights, the dearest first, one of them
\* filtered out; the best-value flight is not the first of the list
C36_Witness ==
    /\ ret # Nil /\ arg.SortBy = ""
    /\ ~IsNil(arg.Filters)
    /\ Len(arg.Flights) = 3
    /\ Len(Deref(ret).Flights) = 2
    /\ Deref(ret).Flights[1].Price > Deref(ret).Flights[2].Price
    /\ Deref(ret).Best = Ptr(Deref(ret).Flights[2])


\* C37: for a sort_by outside price, duration, departure, arrival and stops,
\* Sort orders the flights by price ascending, whatever sort_order is
\* ("desc" included).
C37_UnknownSortKeyIsPriceAscending ==
    [][(ret = Nil /\ ret' # Nil /\ arg.SortBy \notin SortKeys)
         => LET out == Deref(ret')
            IN  /\ SameBag(out, arg.Flights)
                /\ \A i \in 1..Len(out) - 1 : out[i].Price <= out[i + 1].Price]_vars

\* C37's case: three flights that were not in price order, sorted by an
\* unknown key with sort_order "desc"
C37_Witness ==
    /\ ret # Nil
    /\ arg.SortBy = "rating"
    /\ arg.SortOrder = "desc"
    /\ Len(arg.Flights) = 3
    /\ arg.Flights[1].Price > arg.Flights[2].Price
    /\ Deref(ret)[1].Price < Deref(ret)[2].Price
    /\ Deref(ret)[2].Price < Deref(ret)[3].Price


\* the number of providers selected for a request
SelectedCount(req) ==
    IF HasAirlineFilter(req) /\ Named(req) # {} THEN Cardinality(Named(req))
    ELSE Len(Providers)

\* C38: in every successful response total_results is the length of the
\* flights list returned (after filtering), and providers_succeeded plus
\* providers_failed is the number of providers selected for the outbound leg.
C38_MetadataCountsAddUp ==
    \A i \in 1..Len(calls) :
        (Succeeded(i) /\ calls[i].Resp # 0) =>
            LET r == SeenResponse(i)
            IN  /\ r.Metadata.TotalResults = Len(r.Flights)
                /\ r.Metadata.ProvidersSucceeded + r.Metadata.ProvidersFailed
                     = SelectedCount(calls[i].Req)
                /\ calls[i].Agg # Nil =>
                     SelectedCount(calls[i].Req) = Len(Deref(calls[i].Agg).Selected)

\* C38's case: a computed response whose filter removed flights while one
\* provider failed and another succeeded, and a response served from the
\* cache that records a provider failure
C38_Witness ==
    /\ \E i \in 1..Len(calls) :
          /\ Computed(i)
          /\ SeenResponse(i).Metadata.TotalResults
               < Len(Deref(calls[i].Agg).Out.Aggregated.Flights)
          /\ SeenResponse(i).Metadata.ProvidersFailed >= 1
          /\ SeenResponse(i).Metadata.ProvidersSucceeded >= 1
    /\ \E i \in 1..Len(calls) :
          /\ Succeeded(i) /\ calls[i].Agg = Nil /\ calls[i].Resp # 0
          /\ SeenResponse(i).Metadata.ProvidersFailed >= 1

\* a round trip's Search returns in this step after a return-leg aggregation
\* that collected no flight
ReturnLegCameBackEmpty(i) ==
    /\ i \in Returning
    /\ calls'[i].Agg # Nil
    /\ Deref(calls'[i].Agg).Out.Aggregated.Flights # <<>>
    /\ calls'[i].RetAgg # Nil
    /\ Deref(calls'[i].RetAgg).Out.Aggregated.Flights = <<>>

\* C39: a failure of the return leg never fails the search: when the outbound
\* leg has flights and the return-leg aggregation returns none, Search
\* returns a response with the outbound flights, an empty return flight
\* list and return metadata recording the provider errors, and stores that
\* response in the cache.
C39_ReturnLegFailureStillSucceeds ==
    [][\A i \in 1..MaxCalls :
         ReturnLegCameBackEmpty(i) =>
            LET req == calls'[i].Req
                out == Deref(calls'[i].Agg)
                back == Deref(calls'[i].RetAgg)
                key == GenerateKey(req)
            IN  /\ calls'[i].Err = NoError
                /\ calls'[i].Resp # 0
                /\ LET resp == heap'[calls'[i].Resp]
                   IN  /\ Range(resp.Flights)
                            = {f \in Range(out.Out.Aggregated.Flights) : Passes(f, req.Filters)}
                       /\ resp.ReturnFlights = <<>>
                       /\ resp.BestValueReturnFlight = Nil
                       /\ resp.ReturnMetadata # 0
                       /\ LET rm == metaHeap'[resp.ReturnMetadata]
                          IN  /\ rm.TotalResults = 0
                              /\ rm.ProviderErrors = back.Out.Aggregated.ProviderErrors
                              /\ DOMAIN rm.ProviderErrors = Range(back.Selected)
                              /\ rm.ProvidersFailed = Len(back.Selected)
                              /\ rm.ProvidersSucceeded = 0
                /\ back.Out.Error # NoError
                /\ key \in DOMAIN data'
                /\ data'[key].Data = calls'[i].Resp
                /\ lastSet' # lastSet]_vars

\* C39's case: a round trip returned with outbound flights after every
\* provider of the return leg had failed
C39_Witness ==
    \E i \in 1..Len(calls) :
        /\ Succeeded(i)
        /\ HasReturnDate(calls[i].Req)
        /\ SeenResponse(i).Flights # <<>>
        /\ calls[i].RetAgg # Nil
        /\ Deref(calls[i].RetAgg).Out.Aggregated.Flights = <<>>
        /\ Deref(calls[i].RetAgg).Out.Error # NoError
        /\ SeenResponse(i).ReturnFlights = <<>>
        /\ GenerateKey(calls[i].Req) \in DOMAIN data
        /\ data[GenerateKey(calls[i].Req)].Data = calls[i].Resp


\* err wraps inner: the chain of err ends with the chain of inner
ErrEndsWith(err, inner) ==
    /\ inner # NoError
    /\ Len(inner) <= Len(err)
    /\ SubSeq(err, Len(err) - Len(inner) + 1, Len(err)) = inner

\* C40 as claimed: for every max_attempts, 0 included, RetryWithCheck with a
\* token that is never cancelled invokes the operation at least once before
\* it reports a failure, and every error it returns wraps an error that an
\* invocation of the operation returned or the token's cancellation error.
C40_InvokedBeforeAnyFailure ==
    ret # Nil =>
        LET r == Deref(ret)
            invoked == InvokesOf(r.Trace)
        IN  /\ (arg.CancelAt = Nil /\ r.Err # NoError) => Len(invoked) >= 1
            /\ r.Err # NoError =>
                 \/ \E k \in 1..Len(invoked) :
                       ErrEndsWith(r.Err, FnResult(arg.Fn, invoked[k].Attempt).Err)
                 \/ /\ arg.CancelAt # Nil
                    /\ ErrEndsWith(r.Err, <<arg.CtxErr>>)

=============================================================================
